---- MODULE Spec2Model ----
(***************************************************************************)
(* A model of ffmpeg_quality_metrics.FfmpegQualityMetrics (version 3.1.7): *)
(* construction, calculate() with its engine invocation, harvesting and    *)
(* cleanup, and the result accessors.  The external engine (ffmpeg) is the *)
(* environment: what it lists, prints, writes and returns is chosen        *)
(* nondeterministically from small sets.                                   *)
(***************************************************************************)
EXTENDS Integers, Sequences, FiniteSets, TLC

(* ------------------------------ bounds -------------------------------- *)

\* frames of the input pair: 1..MaxFrames
MaxFrames == 3
\* calculate() calls made on one object
MaxCalls == 2
\* largest libvmaf n_subsample a caller supplies
MaxSubsample == 2

(* --------------------------- class constants -------------------------- *)

ALLOWED_SCALERS ==
    {"fast_bilinear", "bilinear", "bicubic", "experimental", "neighbor", "area",
     "bicublin", "gauss", "sinc", "lanczos", "spline"}

DEFAULT_SCALER == "bicubic"

DEFAULT_VMAF_SUBSAMPLE == 1

POSSIBLE_FILTERS == <<"libvmaf", "psnr", "ssim", "vif">>

METRIC_TO_FILTER_MAP ==
    [vmaf |-> "libvmaf", psnr |-> "psnr", ssim |-> "ssim", vif |-> "vif"]

\* the keys of self.data, in the insertion order of __init__
DataOrder == <<"vmaf", "psnr", "ssim", "vif">>

MetricNames == {"vmaf", "psnr", "ssim", "vif"}

Range(s) == {s[i] : i \in 1..Len(s)}

(* ------------------------------- errors ------------------------------- *)

Err(type, msg) == [type |-> type, msg |-> msg]

NoErr == Err("", "")

FfmpegQualityMetricsError(msg) == Err("FfmpegQualityMetricsError", msg)

(* ---------------------------- paths and files ------------------------- *)

\* A path string, kept with its parts: directory, file stem and extension.
Path(dir, stem, ext) == [dir |-> dir, stem |-> stem, ext |-> ext]

str(p) == p.dir \o "/" \o p.stem \o "." \o p.ext

basename(p) == p.stem \o "." \o p.ext

endswith_yuv(p) == p.ext = "yuv"

\* the video files that exist on disk
VideoFiles ==
    {Path("/a", "ref", "mkv"), Path("/a", "dist", "mkv"),
     Path("/b", "ref", "mkv"), Path("/b", "dist", "mkv"),
     Path("/a", "raw", "yuv")}

isfile(p) == p \in VideoFiles

\* tmp_dir of every object (the same working directory)
TmpDir == "/tmp"

temp_file_path(tmp_dir, filter_name, ref, dist) ==
    LET suffix == IF filter_name # "libvmaf" THEN "txt" ELSE "json"
    IN  tmp_dir \o "/" \o "ffmpeg_quality_metrics_" \o filter_name \o "_"
            \o basename(ref) \o "_" \o basename(dist) \o "." \o suffix

temp_files_of(tmp_dir, ref, dist) ==
    [f \in Range(POSSIBLE_FILTERS) |-> temp_file_path(tmp_dir, f, ref, dist)]

(* ------------------------------ run_command --------------------------- *)

\* The outcome of utils.run_command for a process that would exit with
\* returncode: whether a process was spawned, and the exception raised.
run_command(dry_run, allow_error, returncode) ==
    IF dry_run
    THEN [spawned |-> FALSE, exc |-> NoErr]
    ELSE IF allow_error \/ returncode = 0
         THEN [spawned |-> TRUE, exc |-> NoErr]
         ELSE [spawned |-> TRUE, exc |-> Err("RuntimeError", "error running command")]

(* ------------------------------ construction -------------------------- *)

EmptyData == [m \in MetricNames |-> <<>>]

\* an empty dict
EmptyDict == [k \in {} |-> 0]

\* _check_available_filters, given the names `ffmpeg -filters` printed
_check_available_filters(filter_list) ==
    SelectSeq(POSSIBLE_FILTERS, LAMBDA key : key \in filter_list)

NullSelf ==
    [ref |-> Path("", "", ""), dist |-> Path("", "", ""), scaling_algorithm |-> "",
     framerate |-> 0, dry_run |-> FALSE, progress |-> FALSE, keep_tmp_files |-> FALSE,
     data |-> EmptyData, available_filters |-> <<>>, global_stats |-> EmptyDict,
     temp_files |-> [f \in Range(POSSIBLE_FILTERS) |-> ""]]

\* the attributes __init__ sets
init_fields(cfg) ==
    [ref |-> cfg.ref, dist |-> cfg.dist, scaling_algorithm |-> cfg.scaling_algorithm,
     framerate |-> cfg.framerate, dry_run |-> cfg.dry_run, progress |-> cfg.progress,
     keep_tmp_files |-> cfg.keep_tmp_files, data |-> EmptyData,
     available_filters |-> <<>>, global_stats |-> EmptyDict,
     temp_files |-> temp_files_of(TmpDir, cfg.ref, cfg.dist)]

\* the checks on the two input paths at the head of __init__
check_inputs(cfg) ==
    IF ~isfile(cfg.ref) THEN FfmpegQualityMetricsError("Reference file not found")
    ELSE IF ~isfile(cfg.dist) THEN FfmpegQualityMetricsError("Distorted file not found")
    ELSE IF endswith_yuv(cfg.ref) \/ endswith_yuv(cfg.dist)
    THEN FfmpegQualityMetricsError("YUV files are not supported")
    ELSE NoErr

\* what __init__ logs as a warning: the two paths are equal (the test comes
\* after the two isfile checks)
init_warnings(cfg) ==
    IF isfile(cfg.ref) /\ isfile(cfg.dist) /\ cfg.ref = cfg.dist
    THEN <<"Reference and distorted files are the same!">> ELSE <<>>

check_scaler(cfg) ==
    IF cfg.scaling_algorithm \notin ALLOWED_SCALERS
    THEN FfmpegQualityMetricsError("Allowed scaling algorithms")
    ELSE NoErr

\* a constructor that raised exc after spawning the processes `processes`
init_raises(exc, processes) == [exc |-> exc, spawned |-> processes, self |-> NullSelf]

\* __init__ with the scaling algorithm checked only after the filter probe
init_probe_before_scaler_check(cfg, filters_rc, filter_list) ==
    LET probe == run_command(FALSE, FALSE, filters_rc)
    IN  IF check_inputs(cfg) # NoErr THEN init_raises(check_inputs(cfg), <<>>)
        ELSE IF probe.exc # NoErr THEN init_raises(probe.exc, <<"ffmpeg -filters">>)
        ELSE IF check_scaler(cfg) # NoErr
        THEN init_raises(check_scaler(cfg), <<"ffmpeg -filters">>)
        ELSE [exc |-> NoErr, spawned |-> <<"ffmpeg -filters">>,
              self |-> [init_fields(cfg) EXCEPT
                          !.available_filters = _check_available_filters(filter_list)]]

\* FfmpegQualityMetrics.__init__: the checks in the order of the code, then
\* _check_available_filters.  The result holds the exception raised (if any),
\* the processes spawned and the object.  filters_rc is the exit code of
\* `ffmpeg -filters`, filter_list the names it printed.
__init__(cfg, filters_rc, filter_list) ==
    LET probe == run_command(FALSE, FALSE, filters_rc)
    IN  IF check_inputs(cfg) # NoErr THEN init_raises(check_inputs(cfg), <<>>)
        ELSE IF check_scaler(cfg) # NoErr THEN init_raises(check_scaler(cfg), <<>>)
        ELSE IF probe.exc # NoErr THEN init_raises(probe.exc, <<"ffmpeg -filters">>)
        ELSE [exc |-> NoErr, spawned |-> <<"ffmpeg -filters">>,
              self |-> [init_fields(cfg) EXCEPT
                          !.available_filters = _check_available_filters(filter_list)]]

(* ------------------------- the engine (environment) ------------------- *)

\* The value the engine computes for the frame at position k (0-based) of the
\* input pair, in thousandths (0.010, 0.021, 0.034, ...): it stands for the
\* content of that frame.
Score(k) == 10 * (k + 1) + k * k

\* A chain of the filter graph: the labels it reads, the filter with its
\* options, and the labels it writes.
Chain(inputs, filter, opts, outputs) ==
    [inputs |-> inputs, filter |-> filter, opts |-> opts, outputs |-> outputs]

\* A video stream inside the graph: the input it comes from, whether it was
\* scaled to the size of the reference, and whether its timestamps were reset.
Stream(source, scaled, pts_reset) ==
    [source |-> source, scaled |-> scaled, pts_reset |-> pts_reset]

\* the streams of the two inputs of the command: -i ref is input 0, -i dist
\* is input 1; a filter may read them any number of times
InputPads == [p \in {"0", "1"} |-> Stream(IF p = "0" THEN "ref" ELSE "dist", FALSE, FALSE)]

MetricFilters == Range(POSSIBLE_FILTERS)

\* the labels defined once chain c has run on the labels in pads
pads_after(pads, c) ==
    LET ins == [i \in 1..Len(c.inputs) |-> pads[c.inputs[i]]]
        kept == DOMAIN pads \ (Range(c.inputs) \ DOMAIN InputPads)
        made(j) ==
            CASE c.filter = "scale" -> [ins[1] EXCEPT !.scaled = TRUE]
              [] c.filter = "scale2ref" ->
                    IF j = 1 THEN [ins[1] EXCEPT !.scaled = TRUE] ELSE ins[2]
              [] c.filter = "settb,setpts" -> [ins[1] EXCEPT !.pts_reset = TRUE]
              [] OTHER -> ins[1]
    IN  [l \in kept \cup Range(c.outputs) |->
            IF l \in Range(c.outputs)
            THEN made(CHOOSE j \in 1..Len(c.outputs) : c.outputs[j] = l)
            ELSE pads[l]]

\* whether the engine accepts chain c on the labels in pads: every label it
\* reads is defined, it writes no label twice or again, and it has the
\* number of inputs and outputs of its filter
chain_connects(pads, c) ==
    /\ Range(c.inputs) \subseteq DOMAIN pads
    /\ \A i, j \in 1..Len(c.inputs) : c.inputs[i] = c.inputs[j] => i = j
    /\ \A i, j \in 1..Len(c.outputs) : c.outputs[i] = c.outputs[j] => i = j
    /\ Range(c.outputs) \cap DOMAIN pads = {}
    /\ CASE c.filter = "scale" -> Len(c.inputs) = 2 /\ Len(c.outputs) = 1
         [] c.filter = "scale2ref" -> Len(c.inputs) = 2 /\ Len(c.outputs) = 2
         [] c.filter = "settb,setpts" -> Len(c.inputs) = 1 /\ Len(c.outputs) = 1
         [] c.filter = "split" -> Len(c.inputs) = 1 /\ Len(c.outputs) = c.opts.n
         [] OTHER -> c.filter \in MetricFilters /\ Len(c.inputs) = 2
                        /\ Len(c.outputs) = 0

\* The engine setting up the graph, chain by chain: whether it accepts the
\* graph, and the metric stages with the streams each one compares.
RECURSIVE run_filter_graph(_, _, _, _)
run_filter_graph(filter_chains, i, pads, stages) ==
    IF i > Len(filter_chains)
    THEN [ok |-> DOMAIN pads = DOMAIN InputPads, stages |-> stages]
    ELSE IF ~chain_connects(pads, filter_chains[i]) THEN [ok |-> FALSE, stages |-> <<>>]
    ELSE LET c == filter_chains[i]
         IN  run_filter_graph(
                 filter_chains, i + 1, pads_after(pads, c),
                 IF c.filter \in MetricFilters
                 THEN Append(stages, [filter |-> c.filter, opts |-> c.opts,
                                      main |-> pads[c.inputs[1]],
                                      reference |-> pads[c.inputs[2]]])
                 ELSE stages)

\* The value a metric stage computes for the frame at position k: that of the
\* scaled, timestamp-reset distorted frame against the timestamp-reset
\* reference frame, and another value for any other pair of streams.
stage_score(stage, k) ==
    IF stage.main = Stream("dist", TRUE, TRUE) /\ stage.reference = Stream("ref", FALSE, TRUE)
    THEN Score(k) ELSE Score(k) + 1

\* The stats file the psnr and ssim filters write: one line per frame, n 1-based.
stats_log(stage, F) == [i \in 1..F |-> [ok |-> TRUE, n |-> i, v |-> stage_score(stage, i - 1)]]

\* The libvmaf log: one entry per frame whose 0-based number is a multiple of
\* n_subsample, frameNum being that number and metrics the object of its
\* scores.
vmaf_log(stage, F) ==
    [j \in 1..((F + stage.opts.n_subsample - 1) \div stage.opts.n_subsample) |->
        [ok |-> TRUE, frameNum |-> (j - 1) * stage.opts.n_subsample,
         metrics |-> [vmaf |-> stage_score(stage, (j - 1) * stage.opts.n_subsample)]]]

\* What metadata=mode=print writes to stderr for the vif filter: per frame a
\* frame:<k> line (k 0-based) and a lavfi.vif.scale.0 line.
RECURSIVE vif_lines(_, _, _)
vif_lines(stage, k, F) ==
    IF k >= F THEN <<>>
    ELSE << [prefix |-> "[Parsed_metadata", tag |-> "frame", n |-> k, key |-> "", v |-> 0],
            [prefix |-> "[Parsed_metadata", tag |-> "lavfi.vif", n |-> 0,
             key |-> "lavfi.vif.scale.0", v |-> stage_score(stage, k)] >>
         \o vif_lines(stage, k + 1, F)

BannerLine == [prefix |-> "ffmpeg version", tag |-> "", n |-> 0, key |-> "", v |-> 0]

\* stderr of a completed engine run
engine_stderr(stages, F) ==
    LET vif == SelectSeq(stages, LAMBDA stage : stage.filter = "vif")
    IN  [kind |-> "str",
         lines |-> <<BannerLine>> \o (IF vif # <<>> THEN vif_lines(vif[1], 0, F) ELSE <<>>)]

EmptyString == [kind |-> "str", lines |-> <<>>]

None == [kind |-> "None", lines |-> <<>>]

\* truthiness of a str-or-None value
truthy(output) == output.kind = "str" /\ output.lines # <<>>

File(valid, entries) == [valid |-> valid, entries |-> entries]

\* The artifact the engine leaves for one metric stage; damage is "none" or
\* "malformed" (unparseable JSON, or a text file whose last line is cut).
engine_artifact(stage, F, damage) ==
    LET entries == IF stage.filter = "libvmaf" THEN vmaf_log(stage, F) ELSE stats_log(stage, F)
    IN  IF damage = "none" THEN File(TRUE, entries)
        ELSE IF stage.filter = "libvmaf" THEN File(FALSE, <<>>)
        ELSE File(TRUE, [entries EXCEPT ![Len(entries)].ok = FALSE])

FileMetrics == {"vmaf", "ssim", "psnr"}

\* The file system after an engine run: every stage of a file-writing filter
\* (over)writes the file its options name; that of metric bad is damaged.
engine_writes(files, stages, F, bad, damage) ==
    LET writers == {i \in 1..Len(stages) : stages[i].filter # "vif"}
        paths == {stages[i].opts.path : i \in writers}
        stage_at(p) == stages[CHOOSE i \in writers : stages[i].opts.path = p]
    IN  [p \in DOMAIN files \cup paths |->
            IF p \in paths
            THEN engine_artifact(stage_at(p), F,
                                 IF stage_at(p).filter = METRIC_TO_FILTER_MAP[bad]
                                 THEN damage ELSE "none")
            ELSE files[p]]

(* ------------------------------- harvesting --------------------------- *)

\* the loop over the lines of a psnr/ssim stats file: every parsed line is
\* appended at once, a line that does not parse raises
RECURSIVE read_stats_lines(_, _, _, _)
read_stats_lines(series, lines, i, key) ==
    IF i > Len(lines) THEN [series |-> series, exc |-> NoErr]
    ELSE IF ~lines[i].ok THEN [series |-> series, exc |-> Err("ValueError", "malformed line")]
    ELSE read_stats_lines(Append(series, (key :> lines[i].v) @@ [n |-> lines[i].n]),
                          lines, i + 1, key)

_read_psnr_temp_file(series, files, path) ==
    IF path \notin DOMAIN files
    THEN [series |-> series, exc |-> Err("FileNotFoundError", path)]
    ELSE read_stats_lines(series, files[path].entries, 1, "psnr_avg")

_read_ssim_temp_file(series, files, path) ==
    IF path \notin DOMAIN files
    THEN [series |-> series, exc |-> Err("FileNotFoundError", path)]
    ELSE read_stats_lines(series, files[path].entries, 1, "ssim_avg")

\* the loop of _read_vmaf_temp_file storing the engine's frameNum unchanged
RECURSIVE read_vmaf_frames_zero_based(_, _, _)
read_vmaf_frames_zero_based(series, frames, i) ==
    IF i > Len(frames) THEN [series |-> series, exc |-> NoErr]
    ELSE read_vmaf_frames_zero_based(
            Append(series, [n |-> frames[i].frameNum] @@ frames[i].metrics),
            frames, i + 1)

\* the loop of _read_vmaf_temp_file keeping only the vmaf score of an entry
RECURSIVE read_vmaf_frames_score_only(_, _, _)
read_vmaf_frames_score_only(series, frames, i) ==
    IF i > Len(frames) THEN [series |-> series, exc |-> NoErr]
    ELSE read_vmaf_frames_score_only(
            Append(series, [vmaf |-> frames[i].metrics.vmaf, n |-> frames[i].frameNum + 1]),
            frames, i + 1)

\* the loop of _read_vmaf_temp_file: the metrics object of every entry is
\* stored, with n set in it to the engine's frameNum plus one
RECURSIVE read_vmaf_frames(_, _, _)
read_vmaf_frames(series, frames, i) ==
    IF i > Len(frames) THEN [series |-> series, exc |-> NoErr]
    ELSE read_vmaf_frames(
            Append(series, [n |-> frames[i].frameNum + 1] @@ frames[i].metrics),
            frames, i + 1)

_read_vmaf_temp_file(series, files, path) ==
    IF path \notin DOMAIN files
    THEN [series |-> series, exc |-> Err("FileNotFoundError", path)]
    ELSE IF ~files[path].valid
    THEN [series |-> series, exc |-> Err("JSONDecodeError", path)]
    ELSE read_vmaf_frames(series, files[path].entries, 1)

\* _read_temp_files: vmaf, then ssim, then psnr; the first exception ends it
_read_temp_files(data, metrics, dry_run, files, temp_files) ==
    IF dry_run THEN [data |-> data, exc |-> NoErr]
    ELSE
    LET r1 == IF "vmaf" \in Range(metrics)
              THEN _read_vmaf_temp_file(data["vmaf"], files, temp_files["libvmaf"])
              ELSE [series |-> data["vmaf"], exc |-> NoErr]
        d1 == [data EXCEPT !["vmaf"] = r1.series]
        r2 == IF "ssim" \in Range(metrics)
              THEN _read_ssim_temp_file(data["ssim"], files, temp_files["ssim"])
              ELSE [series |-> data["ssim"], exc |-> NoErr]
        d2 == [d1 EXCEPT !["ssim"] = r2.series]
        r3 == IF "psnr" \in Range(metrics)
              THEN _read_psnr_temp_file(data["psnr"], files, temp_files["psnr"])
              ELSE [series |-> data["psnr"], exc |-> NoErr]
        d3 == [d2 EXCEPT !["psnr"] = r3.series]
    IN  IF r1.exc # NoErr THEN [data |-> d1, exc |-> r1.exc]
        ELSE IF r2.exc # NoErr THEN [data |-> d2, exc |-> r2.exc]
        ELSE [data |-> d3, exc |-> r3.exc]

\* key.replace("lavfi.vif.", "") alone: the dots of the key are kept
vif_key_dotted(key) ==
    CASE key = "lavfi.vif.scale.0" -> "scale.0"
      [] key = "lavfi.vif.scale.1" -> "scale.1"
      [] key = "lavfi.vif.scale.2" -> "scale.2"
      [] key = "lavfi.vif.scale.3" -> "scale.3"
      [] OTHER -> key

\* key.replace("lavfi.vif.", "").replace(".", "_") on the keys the filter prints
vif_key(key) ==
    CASE key = "lavfi.vif.scale.0" -> "scale_0"
      [] key = "lavfi.vif.scale.1" -> "scale_1"
      [] key = "lavfi.vif.scale.2" -> "scale_2"
      [] key = "lavfi.vif.scale.3" -> "scale_3"
      [] OTHER -> key

\* the loop of _read_vif_output; current is <<>> while current_frame is None
RECURSIVE read_vif_lines(_, _, _, _, _)
read_vif_lines(series, lines, i, has_frame, frame_data) ==
    IF i > Len(lines)
    THEN IF DOMAIN frame_data # {} THEN Append(series, frame_data) ELSE series
    ELSE IF lines[i].prefix # "[Parsed_metadata"
    THEN read_vif_lines(series, lines, i + 1, has_frame, frame_data)
    ELSE IF lines[i].tag = "frame"
    THEN read_vif_lines(
            IF DOMAIN frame_data # {} THEN Append(series, frame_data) ELSE series,
            lines, i + 1, TRUE, [n |-> lines[i].n])
    ELSE IF ~has_frame \/ lines[i].tag # "lavfi.vif"
    THEN read_vif_lines(series, lines, i + 1, has_frame, frame_data)
    ELSE read_vif_lines(series, lines, i + 1, has_frame,
                        (vif_key(lines[i].key) :> lines[i].v) @@ frame_data)

_read_vif_output(series, ffmpeg_output) ==
    read_vif_lines(series, ffmpeg_output.lines, 1, FALSE, [k \in {} |-> 0])

_read_ffmpeg_output(data, ffmpeg_output, metrics, dry_run) ==
    IF dry_run THEN data
    ELSE IF "vif" \in Range(metrics)
    THEN [data EXCEPT !["vif"] = _read_vif_output(data["vif"], ffmpeg_output)]
    ELSE data

\* _cleanup_temp_files with the keep_tmp_files test inverted
cleanup_keep_inverted(files, temp_files, keep_tmp_files) ==
    LET mine == {temp_files[f] : f \in DOMAIN temp_files}
        kept == IF ~keep_tmp_files THEN DOMAIN files ELSE DOMAIN files \ mine
    IN  [p \in kept |-> files[p]]

\* _cleanup_temp_files: the files left on disk
_cleanup_temp_files(files, temp_files, keep_tmp_files) ==
    LET mine == {temp_files[f] : f \in DOMAIN temp_files}
        kept == IF keep_tmp_files THEN DOMAIN files ELSE DOMAIN files \ mine
    IN  [p \in kept |-> files[p]]

\* the value calculate returns: only the entries of self.data holding values
calculate_return(data) ==
    [k \in {m \in DOMAIN data : data[m] # <<>>} |-> data[k]]

(* ------------------------- calculate: validation ---------------------- *)

metric_filter(metric_name) ==
    IF metric_name \in DOMAIN METRIC_TO_FILTER_MAP
    THEN METRIC_TO_FILTER_MAP[metric_name] ELSE "None"

\* the loop checking only that every metric is a known one
RECURSIVE check_metrics_known_only(_, _, _)
check_metrics_known_only(metrics, i, available_filters) ==
    IF i > Len(metrics) THEN NoErr
    ELSE IF metric_filter(metrics[i]) \notin Range(POSSIBLE_FILTERS)
    THEN FfmpegQualityMetricsError("No such metric")
    ELSE check_metrics_known_only(metrics, i + 1, available_filters)

\* the loop "check available metrics"
RECURSIVE check_metrics(_, _, _)
check_metrics(metrics, i, available_filters) ==
    IF i > Len(metrics) THEN NoErr
    ELSE IF metric_filter(metrics[i]) \notin Range(POSSIBLE_FILTERS)
    THEN FfmpegQualityMetricsError("No such metric")
    ELSE IF metric_filter(metrics[i]) \notin Range(available_filters)
    THEN FfmpegQualityMetricsError("Your ffmpeg version does not have the filter")
    ELSE check_metrics(metrics, i + 1, available_filters)

\* the checks at the head of calculate
validate_request(metrics, available_filters) ==
    IF metrics = <<>> THEN FfmpegQualityMetricsError("No metrics specified!")
    ELSE check_metrics(metrics, 1, available_filters)

\* "set VMAF options specifically": self.vmaf_options is bound to the class
\* attribute itself, and every supplied key that is not None is stored in it
set_vmaf_options(defaults, vmaf_options) ==
    [key \in DOMAIN defaults |->
        IF key \in DOMAIN vmaf_options THEN vmaf_options[key] ELSE defaults[key]]

\* calculate up to the try block, in the order of the code: the checks, the
\* VMAF options, then get_ffmpeg_version (a process; version_rc its exit
\* code).  The result holds the exception raised (if any), the processes
\* spawned and the class-level default options as they are left.  The
\* resolution of the VMAF model path (after the checks, before the version
\* probe) and the text of the filter chains are left out.
calculate_head(metrics, vmaf_options, available_filters, defaults, version_rc) ==
    LET invalid == validate_request(metrics, available_filters)
        options == IF "vmaf" \in Range(metrics)
                   THEN set_vmaf_options(defaults, vmaf_options) ELSE defaults
        version == run_command(FALSE, FALSE, version_rc)
    IN  IF invalid # NoErr
        THEN [exc |-> invalid, spawned |-> <<>>, defaults |-> defaults]
        ELSE [exc |-> version.exc, spawned |-> <<"ffmpeg -version">>, defaults |-> options]

\* a version as parse_version reads it: <<major, minor>>
version_less(v, w) == v[1] < w[1] \/ (v[1] = w[1] /\ v[2] < w[2])

\* _get_filter_opts: what the stage of filter_name is told (the stats file,
\* the libvmaf log and interval, the printing of the vif metadata)
_get_filter_opts(filter_name, temp_files, n_subsample) ==
    CASE filter_name \in {"ssim", "psnr"} -> [path |-> temp_files[filter_name]]
      [] filter_name = "libvmaf" ->
            [path |-> temp_files["libvmaf"], n_subsample |-> n_subsample]
      [] filter_name = "vif" -> [metadata |-> "mode=print"]

\* the metric stages with the two branches of a single metric swapped
single_stage_swapped(metrics, temp_files, n_subsample) ==
    IF Len(metrics) = 1
    THEN << Chain(<<"refpts", "distpts">>, METRIC_TO_FILTER_MAP[metrics[1]],
                  _get_filter_opts(METRIC_TO_FILTER_MAP[metrics[1]], temp_files, n_subsample),
                  <<>>) >>
    ELSE [n \in 1..Len(metrics) |->
            Chain(<<"dist" \o ToString(n), "ref" \o ToString(n)>>,
                  METRIC_TO_FILTER_MAP[metrics[n]],
                  _get_filter_opts(METRIC_TO_FILTER_MAP[metrics[n]], temp_files, n_subsample),
                  <<>>)]

\* the metric stages, the n-th reading the n-th distorted copy and the
\* reference copy counted from the last
metric_stages_crossed(metrics, temp_files, n_subsample) ==
    IF Len(metrics) = 1
    THEN << Chain(<<"distpts", "refpts">>, METRIC_TO_FILTER_MAP[metrics[1]],
                  _get_filter_opts(METRIC_TO_FILTER_MAP[metrics[1]], temp_files, n_subsample),
                  <<>>) >>
    ELSE [n \in 1..Len(metrics) |->
            Chain(<<"dist" \o ToString(n), "ref" \o ToString(Len(metrics) + 1 - n)>>,
                  METRIC_TO_FILTER_MAP[metrics[n]],
                  _get_filter_opts(METRIC_TO_FILTER_MAP[metrics[n]], temp_files, n_subsample),
                  <<>>)]

\* the metric stages: one per metric, in the order of metrics, wired to the
\* two branches directly if it is the only one, else to its own pair of copies
metric_stages(metrics, temp_files, n_subsample) ==
    IF Len(metrics) = 1
    THEN << Chain(<<"distpts", "refpts">>, METRIC_TO_FILTER_MAP[metrics[1]],
                  _get_filter_opts(METRIC_TO_FILTER_MAP[metrics[1]], temp_files, n_subsample),
                  <<>>) >>
    ELSE [n \in 1..Len(metrics) |->
            Chain(<<"dist" \o ToString(n), "ref" \o ToString(n)>>,
                  METRIC_TO_FILTER_MAP[metrics[n]],
                  _get_filter_opts(METRIC_TO_FILTER_MAP[metrics[n]], temp_files, n_subsample),
                  <<>>)]

\* a split chain per branch whatever the number of metrics
split_chains_always(n_splits) ==
    [b \in 1..2 |->
        LET source == <<"dist", "ref">>[b]
        IN  Chain(<<source \o "pts">>, "split", [n |-> n_splits],
                  [n \in 1..n_splits |-> source \o ToString(n)])]

\* the split chains: none for one metric, else one per branch with a copy
\* for every metric
split_chains(n_splits) ==
    IF n_splits > 1
    THEN [b \in 1..2 |->
            LET source == <<"dist", "ref">>[b]
            IN  Chain(<<source \o "pts">>, "split", [n |-> n_splits],
                      [n \in 1..n_splits |-> source \o ToString(n)])]
    ELSE <<>>

\* filter_chains as calculate builds it for the engine version found
build_filter_chains(metrics, scaling_algorithm, ffmpeg_version, temp_files, n_subsample) ==
    (IF version_less(ffmpeg_version, <<7, 1>>)
     THEN << Chain(<<"1", "0">>, "scale2ref", [flags |-> scaling_algorithm], <<"dist", "ref">>),
             Chain(<<"dist">>, "settb,setpts", EmptyDict, <<"distpts">>),
             Chain(<<"ref">>, "settb,setpts", EmptyDict, <<"refpts">>) >>
     ELSE << Chain(<<"1", "0">>, "scale", [flags |-> scaling_algorithm], <<"dist">>),
             Chain(<<"dist">>, "settb,setpts", EmptyDict, <<"distpts">>),
             Chain(<<"0">>, "settb,setpts", EmptyDict, <<"refpts">>) >>)
    \o split_chains(Len(metrics))
    \o metric_stages(metrics, temp_files, n_subsample)

\* the cap applied to the whole pair, whatever the seek offset
frames_from_start(F, obj) ==
    LET cap == IF "num_frames" \in DOMAIN obj THEN obj.num_frames ELSE 0
    IN  IF cap = 0 \/ cap > F THEN F ELSE cap

\* The frames the engine processes of a pair of F frames for an object made
\* with a frame-count cap (num_frames, 0 for none) and a seek offset
\* (start_offset, in frames): those after the offset, at most the cap.  An
\* object made without these arguments has neither.
frames_processed(F, obj) ==
    LET cap == IF "num_frames" \in DOMAIN obj THEN obj.num_frames ELSE 0
        skip == IF "start_offset" \in DOMAIN obj THEN obj.start_offset ELSE 0
        rest == IF skip >= F THEN 0 ELSE F - skip
    IN  IF cap = 0 \/ cap > rest THEN rest ELSE cap

\* get_framerate: one probe process; its output holds a parseable fps or not
get_framerate(parsed) ==
    IF parsed THEN NoErr ELSE FfmpegQualityMetricsError("could not parse FPS from file")

\* the frame rate a probe of a video file reports: the files of /b and the
\* reference of /a are at 24 fps, the distorted file of /a at 30
fps(input_file) == IF input_file.stem = "ref" \/ input_file.dir = "/b" THEN 24 ELSE 30

\* _get_framerates raising when the two rates differ
get_framerates_strict(ref, dist, ref_parsed, dist_parsed) ==
    IF get_framerate(ref_parsed) # NoErr
    THEN [exc |-> get_framerate(ref_parsed), spawned |-> <<"ffmpeg -i ref">>]
    ELSE IF get_framerate(dist_parsed) # NoErr
    THEN [exc |-> get_framerate(dist_parsed),
          spawned |-> <<"ffmpeg -i ref", "ffmpeg -i dist">>]
    ELSE IF fps(ref) # fps(dist)
    THEN [exc |-> FfmpegQualityMetricsError("ref, dist framerates differ"),
          spawned |-> <<"ffmpeg -i ref", "ffmpeg -i dist">>]
    ELSE [exc |-> NoErr, spawned |-> <<"ffmpeg -i ref", "ffmpeg -i dist">>,
          ref_framerate |-> fps(ref), dist_framerate |-> fps(dist), warnings |-> <<>>]

\* one probe, of the reference, its rate taken for both inputs
get_framerates_of_ref(ref, dist, ref_parsed, dist_parsed) ==
    IF get_framerate(ref_parsed) # NoErr
    THEN [exc |-> get_framerate(ref_parsed), spawned |-> <<"ffmpeg -i ref">>]
    ELSE [exc |-> NoErr, spawned |-> <<"ffmpeg -i ref">>,
          ref_framerate |-> fps(ref), dist_framerate |-> fps(ref), warnings |-> <<>>]

\* _get_framerates: the probe of the reference, then that of the distorted
\* file; the first that cannot be parsed raises; rates that differ are
\* logged as a warning
_get_framerates(ref, dist, ref_parsed, dist_parsed) ==
    IF get_framerate(ref_parsed) # NoErr
    THEN [exc |-> get_framerate(ref_parsed), spawned |-> <<"ffmpeg -i ref">>]
    ELSE IF get_framerate(dist_parsed) # NoErr
    THEN [exc |-> get_framerate(dist_parsed),
          spawned |-> <<"ffmpeg -i ref", "ffmpeg -i dist">>]
    ELSE [exc |-> NoErr, spawned |-> <<"ffmpeg -i ref", "ffmpeg -i dist">>,
          ref_framerate |-> fps(ref), dist_framerate |-> fps(dist),
          warnings |-> IF fps(ref) # fps(dist)
                       THEN <<"ref, dist framerates differ">> ELSE <<>>]

\* the head of _run_ffmpeg_command: the rates are probed unless one is forced
input_framerates(framerate, ref, dist, ref_parsed, dist_parsed) ==
    IF framerate = 0
    THEN _get_framerates(ref, dist, ref_parsed, dist_parsed)
    ELSE [exc |-> NoErr, spawned |-> <<>>,
          ref_framerate |-> framerate, dist_framerate |-> framerate, warnings |-> <<>>]

\* cmd of _run_ffmpeg_command: each input with the -r option before it
engine_cmd(rates, ref, dist) ==
    << [r |-> rates.ref_framerate, i |-> ref], [r |-> rates.dist_framerate, i |-> dist] >>

(* ------------------------------ get_global_stats ---------------------- *)

\* Numbers with three decimals are integers counting thousandths.

RECURSIVE Sum(_, _)
Sum(values, i) == IF i > Len(values) THEN 0 ELSE values[i] + Sum(values, i + 1)

\* num / den rounded to the nearest integer: round(x, 3) of a quotient of
\* thousandths, in thousandths.  A tie goes to the even one here; the double
\* nearest to a decimal tie lies on either side of it, so round() may take
\* such a value either way.
round_div(num, den) ==
    LET q == num \div den
        r == num % den
    IN  IF 2 * r < den THEN q
        ELSE IF 2 * r > den THEN q + 1
        ELSE IF q % 2 = 0 THEN q ELSE q + 1

\* round(float(np.average(values)), 3)
np_average(values) == round_div(Sum(values, 1), Len(values))

\* round(float(np.median(values)), 3): the middle of the sorted values, the
\* mean of the two middle ones for an even count
np_median(values) ==
    LET sorted == SortSeq(values, LAMBDA a, b : a < b)
        c == Len(values)
    IN  IF c % 2 = 1 THEN sorted[(c + 1) \div 2]
        ELSE round_div(sorted[c \div 2] + sorted[c \div 2 + 1], 2)

np_min(values) == CHOOSE v \in Range(values) : \A w \in Range(values) : v <= w

np_max(values) == CHOOSE v \in Range(values) : \A w \in Range(values) : v >= w

\* the largest s in lo..(hi - 1) with (2s - 1)^2 * e <= 4 * d, given that lo
\* is such an s and hi is not: sqrt(d / e) rounded to the nearest integer,
\* a tie going up
RECURSIVE nearest_root(_, _, _, _)
nearest_root(lo, hi, e, d) ==
    LET mid == (lo + hi) \div 2
    IN  IF hi - lo <= 1 THEN lo
        ELSE IF (2 * mid - 1) * (2 * mid - 1) * e <= 4 * d
        THEN nearest_root(mid, hi, e, d)
        ELSE nearest_root(lo, mid, e, d)

\* c * sum(v^2) - sum(v)^2, which is c^2 times the variance
spread(values) ==
    LET c == Len(values)
    IN  c * Sum([i \in 1..c |-> values[i] * values[i]], 1)
            - Sum(values, 1) * Sum(values, 1)

\* sqrt(d / e) rounded to the nearest integer, a tie going to the even one;
\* the root is at most the distance between the extremes of values
rounded_root(values, e, d) ==
    LET s == nearest_root(0, np_max(values) - np_min(values) + 2, e, d)
        tie == (2 * s - 1) * (2 * s - 1) * e = 4 * d
    IN  IF tie /\ s % 2 = 1 THEN s - 1 ELSE s

\* np.std with the sample divisor count - 1 in place of count
np_std_sample(values) ==
    LET c == Len(values)
    IN  IF c = 1 THEN 0
        ELSE nearest_root(0, 2 * (np_max(values) - np_min(values)) + 2,
                          c * (c - 1), spread(values))

\* round(float(np.std(values)), 3): the population standard deviation
\* sqrt(sum(v^2) / c - (sum(v) / c)^2)
np_std(values) == rounded_root(values, Len(values) * Len(values), spread(values))

\* the stats of one series: for every key of its first frame but n, the five
\* statistics over that key's values in all frames
submetric_stats(metric_data) ==
    [submetric_key \in DOMAIN metric_data[1] \ {"n"} |->
        LET values == [i \in 1..Len(metric_data) |-> metric_data[i][submetric_key]]
        IN  [average |-> np_average(values), median |-> np_median(values),
             stdev |-> np_std(values), min |-> np_min(values), max |-> np_max(values)]]

\* get_global_stats with an entry made for every series, empty or not
global_stats_of_all_series(global_stats, data) ==
    [metric_name \in DOMAIN data |->
        IF data[metric_name] = <<>> THEN EmptyDict ELSE submetric_stats(data[metric_name])]

\* get_global_stats: self.global_stats as the loop over self.data leaves it,
\* which is also the value returned
get_global_stats(global_stats, data) ==
    LET computed == {metric_name \in DOMAIN data : data[metric_name] # <<>>}
    IN  [metric_name \in DOMAIN global_stats \cup computed |->
            IF metric_name \in computed THEN submetric_stats(data[metric_name])
            ELSE global_stats[metric_name]]

(* ------------------------------ get_results_csv ----------------------- *)

\* the rows of pd.merge(x, y, on="n") that the left row l takes part in
joined(l, y) ==
    LET matches == SelectSeq(y, LAMBDA r : r.n = l.n)
    IN  [j \in 1..Len(matches) |-> l @@ matches[j]]

RECURSIVE merge_from(_, _, _)
merge_from(x, y, i) ==
    IF i > Len(x) THEN <<>> ELSE joined(x[i], y) \o merge_from(x, y, i + 1)

\* pd.merge(x, y, on="n"): the inner join, one row per pair of rows with equal n
pd_merge(x, y) == merge_from(x, y, 1)

RECURSIVE reduce_merge(_, _, _)
reduce_merge(acc, dfs, i) ==
    IF i > Len(dfs) THEN acc ELSE reduce_merge(pd_merge(acc, dfs[i]), dfs, i + 1)

\* all_dfs: the non-empty series in the order of self.data
all_dfs(data) ==
    LET present == SelectSeq(DataOrder, LAMBDA m : data[m] # <<>>)
    IN  [i \in 1..Len(present) |-> data[present[i]]]

\* The keys of one frame record in insertion order, which pd.DataFrame takes
\* as its column order: the stats lines and the vif output start with n, the
\* libvmaf metrics get n added last.
record_keys(metric_name) ==
    CASE metric_name = "vmaf" -> <<"vmaf", "n">>
      [] metric_name = "psnr" -> <<"n", "psnr_avg">>
      [] metric_name = "ssim" -> <<"n", "ssim_avg">>
      [] metric_name = "vif" -> <<"n", "scale_0">>

\* the columns of pd.merge(x, y, on="n"): those of x, then those of y but n
merge_columns(x_columns, y_columns) ==
    x_columns \o SelectSeq(y_columns, LAMBDA c : c # "n")

RECURSIVE reduce_columns(_, _, _)
reduce_columns(acc, present, i) ==
    IF i > Len(present) THEN acc
    ELSE reduce_columns(merge_columns(acc, record_keys(present[i])), present, i + 1)

\* cols.index(x)
index(cols, x) ==
    CHOOSE i \in 1..Len(cols) : cols[i] = x /\ \A j \in 1..(i - 1) : cols[j] # x

\* the column order left as it is after the merge
n_stays_in_place(cols) == cols

\* cols.insert(0, cols.pop(cols.index("n")))
n_to_front(cols) ==
    LET i == index(cols, "n")
    IN  <<cols[i]>> \o SubSeq(cols, 1, i - 1) \o SubSeq(cols, i + 1, Len(cols))

\* df.to_csv(index=False): the header line, then one line of values per row
to_csv(columns, df) ==
    <<columns>> \o [i \in 1..Len(df) |-> [j \in 1..Len(columns) |-> df[i][columns[j]]]]

\* get_results_csv: the exception raised, or the lines of the table
get_results_csv(data, ref, dist) ==
    LET present == SelectSeq(DataOrder, LAMBDA m : data[m] # <<>>)
        dfs == all_dfs(data)
        merged == reduce_merge(dfs[1], dfs, 2)
        df == [i \in 1..Len(merged) |->
                 merged[i] @@ [input_file_dist |-> str(dist), input_file_ref |-> str(ref)]]
        cols == reduce_columns(record_keys(present[1]), present, 2)
                    \o <<"input_file_dist", "input_file_ref">>
    IN  IF dfs = <<>>
        THEN [exc |-> FfmpegQualityMetricsError("No data calculated!"), csv |-> <<>>]
        ELSE [exc |-> NoErr, csv |-> to_csv(n_to_front(cols), df)]

(* ------------------------------ get_results_json ---------------------- *)

\* The text of a number in the document.  An int is written as its digits; a
\* float as its shortest repr: the whole part, a point and the decimals
\* without trailing zeros (at least one decimal).
int_repr(n) == [whole |-> n]

RECURSIVE shortest(_, _)
shortest(frac, digits) ==
    IF digits > 1 /\ frac % 10 = 0 THEN shortest(frac \div 10, digits - 1)
    ELSE [frac |-> frac, digits |-> digits]

\* a float written with two decimals
float_repr_2(x) == [whole |-> x \div 1000, frac |-> (x % 1000) \div 10, digits |-> 2]

float_repr(x) == [whole |-> x \div 1000] @@ shortest(x % 1000, 3)

RECURSIVE pow10(_)
pow10(k) == IF k = 0 THEN 1 ELSE 10 * pow10(k - 1)

\* the number json.load reads from the text of a number: an int from digits
\* alone, else a float
parse_number(text) ==
    IF "frac" \in DOMAIN text
    THEN text.whole * 1000 + text.frac * pow10(3 - text.digits)
    ELSE text.whole

\* json.dumps of one frame record: n is an int, the values are floats
dumps_frame(frame) ==
    [k \in DOMAIN frame |-> IF k = "n" THEN int_repr(frame[k]) ELSE float_repr(frame[k])]

dumps_series(metric_data) ==
    [i \in 1..Len(metric_data) |-> dumps_frame(metric_data[i])]

dumps_stats(global_stats) ==
    [m \in DOMAIN global_stats |->
        [k \in DOMAIN global_stats[m] |->
            [stat \in DOMAIN global_stats[m][k] |-> float_repr(global_stats[m][k][stat])]]]

\* get_results_json with the series of every metric written, empty or not
results_json_all_series(global_stats, data, ref, dist) ==
    LET stats == get_global_stats(global_stats, data)
    IN  [global_stats |-> stats,
         json |-> [key \in DOMAIN data |-> dumps_series(data[key])]
                  @@ [global |-> dumps_stats(stats), input_file_dist |-> str(dist),
                      input_file_ref |-> str(ref)]]

\* get_results_json: self.global_stats as get_global_stats leaves it, and the
\* document: the non-empty series, then global and the two paths
get_results_json(global_stats, data, ref, dist) ==
    LET stats == get_global_stats(global_stats, data)
    IN  [global_stats |-> stats,
         json |-> [key \in {k \in DOMAIN data : Len(data[k]) # 0} |-> dumps_series(data[key])]
                  @@ [global |-> dumps_stats(stats), input_file_dist |-> str(dist),
                      input_file_ref |-> str(ref)]]

\* json.load of the series and of the stats written above
loads_series(text) ==
    [i \in 1..Len(text) |-> [k \in DOMAIN text[i] |-> parse_number(text[i][k])]]

loads_stats(text) ==
    [m \in DOMAIN text |->
        [k \in DOMAIN text[m] |->
            [stat \in DOMAIN text[m][k] |-> parse_number(text[m][k][stat])]]]

\* gui.load_json_data: the metrics and the global stats of MetricsData
load_json_data(json) ==
    [metrics |->
        [key \in {k \in {"psnr", "ssim", "vmaf", "vif", "msad"} :
                     k \in DOMAIN json /\ json[k] # <<>>} |-> loads_series(json[key])],
     global_stats |-> IF "global" \in DOMAIN json THEN loads_stats(json["global"])
                      ELSE EmptyDict,
     input_file_dist |-> json["input_file_dist"],
     input_file_ref |-> json["input_file_ref"]]

(* --------------------------- ssim stats lines ------------------------- *)

\* Text here is a sequence of one-character strings.
Digits == <<"0", "1", "2", "3", "4", "5", "6", "7", "8", "9">>

RECURSIVE digits_of(_)
digits_of(n) ==
    IF n < 10 THEN <<Digits[n + 1]>> ELSE digits_of(n \div 10) \o <<Digits[(n % 10) + 1]>>

\* "%f" of a value given in millionths: six decimals
fixed6(x) ==
    LET frac == digits_of(x % 1000000)
    IN  digits_of(x \div 1000000) \o <<".">>
           \o [i \in 1..(6 - Len(frac)) |-> "0"] \o frac

\* The line the engine's ssim filter writes for frame n:
\* "n:1 Y:0.937213 U:0.961733 V:0.945788 All:0.948245 (12.860441)\n", the
\* last value "inf" for identical frames.
ssim_line(n, y, u, v, all, db) ==
    <<"n", ":">> \o digits_of(n)
       \o <<" ", "Y", ":">> \o fixed6(y)
       \o <<" ", "U", ":">> \o fixed6(u)
       \o <<" ", "V", ":">> \o fixed6(v)
       \o <<" ", "A", "l", "l", ":">> \o fixed6(all)
       \o <<" ", "(">> \o (IF db = 0 THEN <<"i", "n", "f">> ELSE fixed6(db)) \o <<")", "\n">>

\* str.strip: leading and trailing whitespace removed
RECURSIVE strip(_)
strip(text) ==
    IF text = <<>> THEN text
    ELSE IF Head(text) \in {" ", "\n"} THEN strip(Tail(text))
    ELSE IF text[Len(text)] \in {" ", "\n"} THEN strip(SubSeq(text, 1, Len(text) - 1))
    ELSE text

\* str.find: the first position of sep in text, 0 if there is none
find(text, sep) ==
    LET at == {i \in 1..(Len(text) - Len(sep) + 1) : SubSeq(text, i, i + Len(sep) - 1) = sep}
    IN  IF at = {} THEN 0 ELSE CHOOSE i \in at : \A j \in at : i <= j

\* str.split(sep)
RECURSIVE split(_, _)
split(text, sep) ==
    LET i == find(text, sep)
    IN  IF i = 0 THEN <<text>>
        ELSE <<SubSeq(text, 1, i - 1)>> \o split(SubSeq(text, i + Len(sep), Len(text)), sep)

\* str.lower
lower(text) ==
    LET small == ("A" :> "a") @@ ("U" :> "u") @@ ("V" :> "v") @@ ("Y" :> "y")
    IN  [i \in DOMAIN text |-> IF text[i] \in DOMAIN small THEN small[text[i]] ELSE text[i]]

\* str.replace(old, new)
RECURSIVE replace(_, _, _)
replace(text, old, new) ==
    LET i == find(text, old)
    IN  IF i = 0 THEN text
        ELSE SubSeq(text, 1, i - 1) \o new
                \o replace(SubSeq(text, i + Len(old), Len(text)), old, new)

\* the characters as one string (a dictionary key)
RECURSIVE joined_text(_)
joined_text(text) == IF text = <<>> THEN "" ELSE Head(text) \o joined_text(Tail(text))

is_digits(text) == text # <<>> /\ \A i \in DOMAIN text : text[i] \in Range(Digits)

RECURSIVE digits_value(_)
digits_value(text) ==
    IF text = <<>> THEN 0
    ELSE 10 * digits_value(SubSeq(text, 1, Len(text) - 1))
            + (CHOOSE d \in 0..9 : Digits[d + 1] = text[Len(text)])

\* what stands for the ValueError of int() and float()
Rejected == -1

\* int(v)
int(text) == IF is_digits(text) THEN digits_value(text) ELSE Rejected

\* round(float(v), 3) in thousandths, for a text of digits with a decimal
\* point
float_round3(text) ==
    LET parts == split(text, <<".">>)
    IN  IF Len(parts) = 1 /\ is_digits(parts[1]) THEN 1000 * digits_value(parts[1])
        ELSE IF Len(parts) = 2 /\ is_digits(parts[1]) /\ is_digits(parts[2])
        THEN IF Len(parts[2]) >= 3
             THEN round_div(digits_value(parts[1] \o parts[2]), pow10(Len(parts[2]) - 3))
             ELSE digits_value(parts[1] \o parts[2]) * pow10(3 - Len(parts[2]))
        ELSE Rejected

\* the key of an ssim component with the prefix alone
ssim_key_prefixed(k) == <<"s", "s", "i", "m", "_">> \o lower(k)

\* "ssim_" + k.lower(), then replace("all", "avg")
ssim_key(k) ==
    replace(<<"s", "s", "i", "m", "_">> \o lower(k), <<"a", "l", "l">>, <<"a", "v", "g">>)

\* the loop over the fields of one line of the ssim stats file
RECURSIVE read_ssim_fields(_, _, _)
read_ssim_fields(fields, i, frame_data) ==
    IF i > Len(fields) THEN [frame_data |-> frame_data, exc |-> NoErr]
    ELSE LET kv == split(fields[i], <<":">>)
             k == IF kv[1] # <<"n">> THEN ssim_key(kv[1]) ELSE kv[1]
             value == IF k # <<"n">> THEN float_round3(kv[2]) ELSE int(kv[2])
         IN  IF Len(kv) # 2
             THEN [frame_data |-> frame_data, exc |-> Err("ValueError", "unpack")]
             ELSE IF value = Rejected
             THEN [frame_data |-> frame_data, exc |-> Err("ValueError", "number")]
             ELSE read_ssim_fields(
                      fields, i + 1,
                      [key \in DOMAIN frame_data \cup {joined_text(k)} |->
                          IF key = joined_text(k) THEN value ELSE frame_data[key]])

\* the loop of _read_ssim_temp_file over the lines of the file as text: the
\* part from " (" on is cut off, the rest read field by field
RECURSIVE read_ssim_text(_, _, _)
read_ssim_text(series, lines, i) ==
    IF i > Len(lines) THEN [series |-> series, exc |-> NoErr]
    ELSE LET line == split(strip(lines[i]), <<" ", "(">>)[1]
             r == read_ssim_fields(split(line, <<" ">>), 1, EmptyDict)
         IN  IF r.exc # NoErr THEN [series |-> series, exc |-> r.exc]
             ELSE read_ssim_text(Append(series, r.frame_data), lines, i + 1)

(* --------------------------- libvmaf options -------------------------- *)

\* str.startswith
startswith(text, prefix) ==
    Len(text) >= Len(prefix) /\ SubSeq(text, 1, Len(prefix)) = prefix

\* sep.join(texts)
RECURSIVE join(_, _)
join(texts, sep) ==
    IF texts = <<>> THEN <<>>
    ELSE IF Len(texts) = 1 THEN texts[1]
    ELSE texts[1] \o sep \o join(Tail(texts), sep)

\* the f"{k}={v}" items of a dict, which is a sequence of <<k, v>> here
items_text(dict) == [i \in 1..Len(dict) |-> dict[i][1] \o <<"=">> \o dict[i][2]]

\* the loop over self.vmaf_options["features"]: a feature that does not
\* start with "name" gets name= in front, and every colon is escaped
libvmaf_features(features) ==
    [i \in 1..Len(features) |->
        replace(IF ~startswith(features[i], <<"n", "a", "m", "e">>)
                THEN <<"n", "a", "m", "e", "=">> \o features[i] ELSE features[i],
                <<":">>, <<"\\", ":">>)]

\* _get_libvmaf_filter_opts: the options of the libvmaf stage as text.  The
\* two paths are single elements of the text (they pass win_path_check and
\* win_vmaf_model_path_check unchanged where the platform is not Windows).
_get_libvmaf_filter_opts(vmaf_model_path, vmaf_options, log_path) ==
    LET param(i) == split(vmaf_options.model_params[i], <<"=">>)
        all_model_params ==
            << <<<<"p", "a", "t", "h">>, <<vmaf_model_path>>>> >>
                \o [i \in 1..Len(vmaf_options.model_params) |-> <<param(i)[1], param(i)[2]>>]
        all_model_params_str == join(items_text(all_model_params), <<"\\", ":">>)
        vmaf_opts ==
            << <<<<"m", "o", "d", "e", "l">>, all_model_params_str>>,
               <<<<"l", "o", "g", "_", "p", "a", "t", "h">>, <<log_path>>>>,
               <<<<"l", "o", "g", "_", "f", "m", "t">>, <<"j", "s", "o", "n">>>>,
               <<<<"n", "_", "t", "h", "r", "e", "a", "d", "s">>, digits_of(vmaf_options.n_threads)>>,
               <<<<"n", "_", "s", "u", "b", "s", "a", "m", "p", "l", "e">>, digits_of(vmaf_options.n_subsample)>> >>
            \o (IF vmaf_options.features # <<>>
                THEN << <<<<"f", "e", "a", "t", "u", "r", "e">>,
                          join(libvmaf_features(vmaf_options.features), <<"|">>)>> >>
                ELSE <<>>)
    IN  join(items_text(vmaf_opts), <<":">>)

(* ------------------------------- state -------------------------------- *)

VARIABLES
    ffmpeg_filters,         \* the filter names the installed engine lists
    num_frames,             \* frames of the (aligned) input pair
    DEFAULT_VMAF_OPTIONS,   \* the class attribute, shared by all objects
    fs,                     \* the artifact files on disk: path -> content
    self,                   \* object -> its attributes
    pc,                     \* object -> where it is
    call,                   \* object -> the locals of its running calculate
    spawned,                \* object -> processes spawned by its current operation
    result                  \* object -> how its last operation ended

vars == <<ffmpeg_filters, num_frames, DEFAULT_VMAF_OPTIONS, fs, self, pc, call,
          spawned, result>>

AllObjects == {1, 2}

\* metrics: the argument; n_subsample: the interval written into the libvmaf
\* options of the command line; output: stderr of the engine; exc: the
\* exception travelling through the try block; n: calls made so far
\* filter_chains: the graph built for the engine run, until that run
NoCall ==
    [metrics |-> <<>>, n_subsample |-> 0, filter_chains |-> <<>>, cmd |-> <<>>,
     warnings |-> <<>>, output |-> None, exc |-> NoErr, n |-> 0]

\* op: the operation; exc: the exception it raised; ret: the value it
\* returned; finally: whether it ended through the finally block of calculate
NoResult == [op |-> "none", exc |-> NoErr, ret |-> <<>>, finally |-> FALSE]

\* what `ffmpeg -filters` can list: a build with and one without libvmaf
EngineBuilds ==
    {{"libvmaf", "psnr", "ssim", "vif", "scale", "split"},
     {"psnr", "ssim", "vif", "scale", "split"}}

Init ==
    /\ ffmpeg_filters \in EngineBuilds
    /\ num_frames = MaxFrames
    /\ DEFAULT_VMAF_OPTIONS = [n_subsample |-> DEFAULT_VMAF_SUBSAMPLE]
    /\ fs = [p \in {} |-> <<>>]
    /\ self = [o \in AllObjects |-> NullSelf]
    /\ pc = [o \in AllObjects |-> "new"]
    /\ call = [o \in AllObjects |-> NoCall]
    /\ spawned = [o \in AllObjects |-> <<>>]
    /\ result = [o \in AllObjects |-> NoResult]

\* the versions `ffmpeg -version` reports: one before 7.1 and 7.1
EngineVersions == {<<7, 0>>, <<7, 1>>}

\* the arguments callers construct objects with
Options(framerate, dry_run, progress, keep_tmp_files) ==
    [framerate |-> framerate, dry_run |-> dry_run, progress |-> progress,
     keep_tmp_files |-> keep_tmp_files]

\* the optional arguments callers pass: the defaults, each option alone, and
\* a dry run with a progress bar
CallerOptions ==
    {Options(0, FALSE, FALSE, FALSE), Options(25, FALSE, FALSE, FALSE),
     Options(0, TRUE, FALSE, FALSE), Options(0, FALSE, TRUE, FALSE),
     Options(0, FALSE, FALSE, TRUE), Options(0, TRUE, TRUE, FALSE)}

ConstructorInputs ==
    {[ref |-> ref, dist |-> dist, scaling_algorithm |-> scaling_algorithm] @@ options :
        ref \in {Path("/a", "ref", "mkv"), Path("/a", "gone", "mkv"), Path("/a", "raw", "yuv")},
        dist \in {Path("/a", "dist", "mkv"), Path("/a", "gone", "mkv")},
        scaling_algorithm \in {DEFAULT_SCALER, "nearest"},
        options \in CallerOptions}

Construct(o, inputs) ==
    /\ pc[o] = "new"
    /\ \E cfg \in inputs, filters_rc \in {0, 1} :
          LET r == __init__(cfg, filters_rc, ffmpeg_filters)
          IN  /\ self' = [self EXCEPT ![o] = r.self]
              /\ spawned' = [spawned EXCEPT ![o] = r.spawned]
              /\ result' = [result EXCEPT ![o] =
                               [op |-> "__init__", exc |-> r.exc, ret |-> <<>>,
                                finally |-> FALSE, log |-> init_warnings(cfg)]]
              /\ pc' = [pc EXCEPT ![o] = IF r.exc = NoErr THEN "idle" ELSE "dead"]
    /\ UNCHANGED <<ffmpeg_filters, num_frames, DEFAULT_VMAF_OPTIONS, fs, call>>

\* the metric lists callers request
MetricRequests ==
    {<<>>, <<"msad">>, <<"psnr">>, <<"vmaf">>, <<"vif">>, <<"ssim", "psnr">>,
     <<"psnr", "vif">>, <<"ssim", "psnr", "vmaf">>}

\* the vmaf_options callers supply: none, or a subsampling interval
VmafOptionInputs ==
    {[key \in {} |-> 0]} \cup {[n_subsample |-> s] : s \in 1..MaxSubsample}

\* calculate up to the try block
CalculateStart(o, requests, max_calls) ==
    /\ pc[o] = "idle"
    /\ call[o].n < max_calls
    /\ \E metrics \in requests :
       \* what the call does not get to see is not enumerated
       \E vmaf_options \in IF "vmaf" \in Range(metrics) THEN VmafOptionInputs ELSE {EmptyDict},
          version_rc \in IF validate_request(metrics, self[o].available_filters) # NoErr
                         THEN {0} ELSE {0, 1} :
       \E r \in {calculate_head(metrics, vmaf_options, self[o].available_filters,
                                 DEFAULT_VMAF_OPTIONS, version_rc)} :
       \E ffmpeg_version \in IF r.exc # NoErr THEN {<<7, 1>>} ELSE EngineVersions :
              /\ DEFAULT_VMAF_OPTIONS' = r.defaults
              /\ spawned' = [spawned EXCEPT ![o] = r.spawned]
              /\ call' = [call EXCEPT ![o] =
                            [metrics |-> metrics, n_subsample |-> r.defaults.n_subsample,
                             filter_chains |->
                                 IF r.exc # NoErr THEN <<>>
                                 ELSE build_filter_chains(
                                          metrics, self[o].scaling_algorithm, ffmpeg_version,
                                          self[o].temp_files, r.defaults.n_subsample),
                             cmd |-> <<>>, warnings |-> <<>>, output |-> None, exc |-> NoErr,
                             n |-> call[o].n + 1]]
              /\ IF r.exc # NoErr
                 THEN /\ result' = [result EXCEPT ![o] =
                                      [op |-> "calculate", exc |-> r.exc, ret |-> <<>>,
                                       finally |-> FALSE]]
                      /\ pc' = pc
                 ELSE /\ result' = [result EXCEPT ![o] = NoResult]
                      /\ pc' = [pc EXCEPT ![o] = "invoke"]
    /\ UNCHANGED <<ffmpeg_filters, num_frames, fs, self>>

\* _run_ffmpeg_command, first statement of the try block: the frame-rate
\* probes unless a rate is forced, then the engine run.  The engine's exit
\* code, and the state it leaves the artifacts in, are the environment's.
_run_ffmpeg_command(o) ==
    /\ pc[o] = "invoke"
    /\ LET probing == self[o].framerate = 0
           frames == frames_processed(num_frames, self[o])
       IN  \* what the call does not get to see is not enumerated
           \E graph \in {run_filter_graph(call[o].filter_chains, 1, InputPads, <<>>)},
              ref_parsed \in IF probing THEN BOOLEAN ELSE {TRUE} :
           \E dist_parsed \in IF probing /\ ref_parsed THEN BOOLEAN ELSE {TRUE} :
           \E rates \in {input_framerates(self[o].framerate, self[o].ref, self[o].dist,
                                          ref_parsed, dist_parsed)} :
           \E returncode \in {rc \in {0, 1} : /\ rates.exc # NoErr => rc = 0
                                              /\ ~graph.ok => rc # 0} :
           \E run \in {run_command(self[o].dry_run, FALSE, returncode)} :
           \E damage \in IF rates.exc = NoErr /\ run.spawned
                         THEN {"none", "malformed"} ELSE {"none"} :
           \E bad \in IF damage = "none" THEN {"psnr"}
                      ELSE FileMetrics \cap Range(call[o].metrics) :
              LET ran == rates.exc = NoErr /\ run.spawned
                  output == IF ~run.spawned
                            THEN IF self[o].progress THEN None ELSE EmptyString
                            ELSE engine_stderr(graph.stages, frames)
                  exc == IF rates.exc # NoErr THEN rates.exc ELSE run.exc
              IN  /\ spawned' = [spawned EXCEPT ![o] =
                                   spawned[o] \o rates.spawned \o
                                   (IF ran THEN <<"ffmpeg -filter_complex">> ELSE <<>>)]
                  /\ fs' = IF ran
                           THEN engine_writes(fs, graph.stages, frames, bad, damage)
                           ELSE fs
                  /\ call' = [call EXCEPT ![o].output = IF exc = NoErr THEN output ELSE None,
                                          ![o].exc = exc, ![o].filter_chains = <<>>,
                                          ![o].cmd =
                                              IF rates.exc # NoErr THEN <<>>
                                              ELSE engine_cmd(rates, self[o].ref, self[o].dist),
                                          ![o].warnings =
                                              IF rates.exc # NoErr THEN <<>>
                                              ELSE rates.warnings]
                  /\ pc' = [pc EXCEPT ![o] = IF exc = NoErr THEN "read_temp_files"
                                             ELSE "cleanup"]
    /\ UNCHANGED <<ffmpeg_filters, num_frames, DEFAULT_VMAF_OPTIONS, self, result>>

\* the temp files removed first, the artifacts read afterwards
ReadTempFilesAfterCleanup(o) ==
    /\ pc[o] = "read_temp_files"
    /\ fs' = _cleanup_temp_files(fs, self[o].temp_files, self[o].keep_tmp_files)
    /\ LET r == _read_temp_files(self[o].data, call[o].metrics, self[o].dry_run, fs',
                                 self[o].temp_files)
       IN  /\ self' = [self EXCEPT ![o].data = r.data]
           /\ call' = [call EXCEPT ![o].exc = r.exc]
           /\ pc' = [pc EXCEPT ![o] = IF r.exc = NoErr THEN "read_ffmpeg_output"
                                      ELSE "cleanup"]
    /\ UNCHANGED <<ffmpeg_filters, num_frames, DEFAULT_VMAF_OPTIONS, spawned, result>>

\* self._read_temp_files(metrics), second statement of the try block
ReadTempFiles(o) ==
    /\ pc[o] = "read_temp_files"
    /\ LET r == _read_temp_files(self[o].data, call[o].metrics, self[o].dry_run, fs,
                                 self[o].temp_files)
       IN  /\ self' = [self EXCEPT ![o].data = r.data]
           /\ call' = [call EXCEPT ![o].exc = r.exc]
           /\ pc' = [pc EXCEPT ![o] = IF r.exc = NoErr THEN "read_ffmpeg_output"
                                      ELSE "cleanup"]
    /\ UNCHANGED <<ffmpeg_filters, num_frames, DEFAULT_VMAF_OPTIONS, fs, spawned, result>>

\* "if output: self._read_ffmpeg_output(output, metrics) else: raise"
ReadFfmpegOutput(o) ==
    /\ pc[o] = "read_ffmpeg_output"
    /\ IF truthy(call[o].output)
       THEN /\ self' = [self EXCEPT ![o].data =
                           _read_ffmpeg_output(self[o].data, call[o].output,
                                               call[o].metrics, self[o].dry_run)]
            /\ call' = call
       ELSE /\ self' = self
            /\ call' = [call EXCEPT ![o].exc =
                           FfmpegQualityMetricsError("ffmpeg output is empty!")]
    /\ pc' = [pc EXCEPT ![o] = "cleanup"]
    /\ UNCHANGED <<ffmpeg_filters, num_frames, DEFAULT_VMAF_OPTIONS, fs, spawned, result>>

\* the finally block, then the re-raise or the return
CleanupTempFiles(o) ==
    /\ pc[o] = "cleanup"
    /\ fs' = _cleanup_temp_files(fs, self[o].temp_files, self[o].keep_tmp_files)
    /\ result' = [result EXCEPT ![o] =
                     [op |-> "calculate", exc |-> call[o].exc,
                      ret |-> IF call[o].exc = NoErr
                              THEN calculate_return(self[o].data) ELSE <<>>,
                      finally |-> TRUE]]
    /\ pc' = [pc EXCEPT ![o] = "idle"]
    /\ UNCHANGED <<ffmpeg_filters, num_frames, DEFAULT_VMAF_OPTIONS, self, call, spawned>>

\* a call of get_results_csv between two calculate calls
GetResultsCsv(o) ==
    /\ pc[o] = "idle"
    /\ LET r == get_results_csv(self[o].data, self[o].ref, self[o].dist)
       IN  result' = [result EXCEPT ![o] =
                        [op |-> "get_results_csv", exc |-> r.exc, ret |-> r.csv,
                         finally |-> FALSE]]
    /\ UNCHANGED <<ffmpeg_filters, num_frames, DEFAULT_VMAF_OPTIONS, fs, self, pc, call,
                   spawned>>

\* a call of get_global_stats between two calculate calls
GetGlobalStats(o) ==
    /\ pc[o] = "idle"
    /\ LET stats == get_global_stats(self[o].global_stats, self[o].data)
       IN  /\ self' = [self EXCEPT ![o].global_stats = stats]
           /\ result' = [result EXCEPT ![o] =
                            [op |-> "get_global_stats", exc |-> NoErr, ret |-> stats,
                             finally |-> FALSE]]
    /\ UNCHANGED <<ffmpeg_filters, num_frames, DEFAULT_VMAF_OPTIONS, fs, pc, call, spawned>>

\* a call of get_results_json between two calculate calls
GetResultsJson(o) ==
    /\ pc[o] = "idle"
    /\ LET r == get_results_json(self[o].global_stats, self[o].data, self[o].ref,
                                 self[o].dist)
       IN  /\ self' = [self EXCEPT ![o].global_stats = r.global_stats]
           /\ result' = [result EXCEPT ![o] =
                            [op |-> "get_results_json", exc |-> NoErr, ret |-> r.json,
                             finally |-> FALSE]]
    /\ UNCHANGED <<ffmpeg_filters, num_frames, DEFAULT_VMAF_OPTIONS, fs, pc, call, spawned>>

Step(o, inputs, requests, max_calls) ==
    \/ Construct(o, inputs)
    \/ CalculateStart(o, requests, max_calls)
    \/ _run_ffmpeg_command(o)
    \/ ReadTempFiles(o)
    \/ ReadFfmpegOutput(o)
    \/ CleanupTempFiles(o)
    \/ GetResultsCsv(o)

\* one object, used any number of times
Next == \E o \in {1} : Step(o, ConstructorInputs, MetricRequests, MaxCalls)

Spec == Init /\ [][Next]_vars

\* calculate() calls made on each of two objects used side by side
MaxCallsEach == 1

\* two callers in one working directory, each with its own input pair
PairInputs ==
    {[ref |-> Path(dir, "ref", "mkv"), dist |-> Path(dir, "dist", "mkv"),
      scaling_algorithm |-> DEFAULT_SCALER] @@ options :
        dir \in {"/a", "/b"},
        options \in {Options(25, FALSE, FALSE, FALSE), Options(25, FALSE, FALSE, TRUE)}}

PairRequests == {<<"psnr">>, <<"ssim", "psnr">>}

\* two objects whose operations interleave at the steps of calculate
NextPair == \E o \in AllObjects : Step(o, PairInputs, PairRequests, MaxCallsEach)

SpecPair == Init /\ [][NextPair]_vars

\* callers whose inputs are a pair at different frame rates, a pair at
\* equal rates, or the same file twice, with or without a forced rate
WarnInputs ==
    {[ref |-> pair[1], dist |-> pair[2], scaling_algorithm |-> DEFAULT_SCALER] @@ options :
        pair \in {<<Path("/a", "ref", "mkv"), Path("/a", "dist", "mkv")>>,
                  <<Path("/b", "ref", "mkv"), Path("/b", "dist", "mkv")>>,
                  <<Path("/a", "ref", "mkv"), Path("/a", "ref", "mkv")>>},
        options \in {Options(0, FALSE, FALSE, FALSE), Options(25, FALSE, FALSE, FALSE),
                     Options(0, TRUE, FALSE, FALSE)}}

WarnRequests == {<<"psnr">>, <<"ssim", "psnr">>, <<"vif">>}

NextWarn == \E o \in {1} : Step(o, WarnInputs, WarnRequests, MaxCalls)

\* one object made from inputs that do or do not draw a warning
SpecWarn == Init /\ [][NextWarn]_vars

\* lines of a console text
MaxVifLines == 5

\* Lines the engine's stderr can hold: a line of the vif filter itself
\* (another prefix), the frame lines of the metadata stage, its lavfi.vif
\* lines and a line of it for another key.
VifConsoleLines ==
    {[prefix |-> "[Parsed_vif", tag |-> "lavfi.vif", n |-> 0,
      key |-> "lavfi.vif.scale.0", v |-> 99],
     [prefix |-> "[Parsed_metadata", tag |-> "frame", n |-> 0, key |-> "", v |-> 0],
     [prefix |-> "[Parsed_metadata", tag |-> "frame", n |-> 5, key |-> "", v |-> 0],
     [prefix |-> "[Parsed_metadata", tag |-> "lavfi.vif", n |-> 0,
      key |-> "lavfi.vif.scale.0", v |-> 264],
     [prefix |-> "[Parsed_metadata", tag |-> "lavfi.vif", n |-> 0,
      key |-> "lavfi.vif.scale.1", v |-> 560],
     [prefix |-> "[Parsed_metadata", tag |-> "lavfi.psnr", n |-> 0,
      key |-> "lavfi.psnr.mse_avg", v |-> 12]}

\* an object whose engine run for vif has ended with a console text of up to
\* MaxVifLines lines
InitVif ==
    \E lines \in UNION {[1..c -> VifConsoleLines] : c \in 0..MaxVifLines} :
        /\ ffmpeg_filters = {"psnr", "ssim", "vif", "scale", "split"}
        /\ num_frames = MaxFrames
        /\ DEFAULT_VMAF_OPTIONS = [n_subsample |-> DEFAULT_VMAF_SUBSAMPLE]
        /\ fs = EmptyDict
        /\ self = [o \in AllObjects |->
                     IF o = 1
                     THEN __init__([ref |-> Path("/a", "ref", "mkv"),
                                    dist |-> Path("/a", "dist", "mkv"),
                                    scaling_algorithm |-> DEFAULT_SCALER]
                                       @@ Options(25, FALSE, FALSE, FALSE),
                                   0, ffmpeg_filters).self
                     ELSE NullSelf]
        /\ pc = [o \in AllObjects |-> IF o = 1 THEN "read_ffmpeg_output" ELSE "new"]
        /\ call = [o \in AllObjects |->
                     IF o = 1
                     THEN [NoCall EXCEPT !.metrics = <<"vif">>, !.n = 1,
                                         !.output = [kind |-> "str", lines |-> lines]]
                     ELSE NoCall]
        /\ spawned = [o \in AllObjects |->
                        IF o = 1 THEN <<"ffmpeg -version", "ffmpeg -filter_complex">>
                        ELSE <<>>]
        /\ result = [o \in AllObjects |-> NoResult]

NextVif == ReadFfmpegOutput(1) \/ CleanupTempFiles(1)

\* the scan of the console text of one engine run, then the finally block
SpecVif == InitVif /\ [][NextVif]_vars

\* entries of a libvmaf log
MaxVmafFrames == 3

\* the features libvmaf was told to log beside the score
VmafFeatureKeys == {{}, {"integer_motion"}, {"integer_motion", "integer_adm2"}}

\* A libvmaf log of count entries taken every k-th frame; the metrics object
\* of an entry holds the score and the features, each key with a value of
\* its own for every frame.
vmaf_log_entries(count, k, keys, base) ==
    [j \in 1..count |->
        [ok |-> TRUE, frameNum |-> (j - 1) * k,
         metrics |-> [key \in {"vmaf"} \cup keys |->
                        CASE key = "vmaf" -> base + Score((j - 1) * k)
                          [] key = "integer_motion" -> base + 3 * j
                          [] key = "integer_adm2" -> base + 900 + j]]]

\* an object whose engine run for vmaf, asked for every k-th frame, has left
\* a libvmaf log (the interval of the call is in the class-level options)
InitVmaf ==
    \E count \in 0..MaxVmafFrames, k \in 1..MaxSubsample, keys \in VmafFeatureKeys,
       base \in 0..2 :
        LET obj == __init__([ref |-> Path("/a", "ref", "mkv"),
                             dist |-> Path("/a", "dist", "mkv"),
                             scaling_algorithm |-> DEFAULT_SCALER]
                                @@ Options(25, FALSE, FALSE, FALSE),
                            0, {"libvmaf", "psnr", "ssim", "vif", "scale", "split"}).self
        IN  /\ ffmpeg_filters = {"libvmaf", "psnr", "ssim", "vif", "scale", "split"}
            /\ num_frames = MaxFrames
            /\ DEFAULT_VMAF_OPTIONS = [n_subsample |-> k]
            /\ fs = (obj.temp_files["libvmaf"] :>
                        File(TRUE, vmaf_log_entries(count, k, keys, base)))
            /\ self = [o \in AllObjects |-> IF o = 1 THEN obj ELSE NullSelf]
            /\ pc = [o \in AllObjects |-> IF o = 1 THEN "read_temp_files" ELSE "new"]
            /\ call = [o \in AllObjects |->
                         IF o = 1
                         THEN [NoCall EXCEPT !.metrics = <<"vmaf">>, !.n = 1,
                                             !.n_subsample = k,
                                             !.output = [kind |-> "str",
                                                         lines |-> <<BannerLine>>]]
                         ELSE NoCall]
            /\ spawned = [o \in AllObjects |->
                            IF o = 1 THEN <<"ffmpeg -version", "ffmpeg -filter_complex">>
                            ELSE <<>>]
            /\ result = [o \in AllObjects |-> NoResult]

NextVmaf == ReadTempFiles(1) \/ ReadFfmpegOutput(1) \/ CleanupTempFiles(1)

\* the harvest of the libvmaf log of one engine run, up to the return
SpecVmaf == InitVmaf /\ [][NextVmaf]_vars

\* features in a list
MaxFeatures == 2

\* the features callers ask for: ciede, cambi:full_ref=true, name=psnr,
\* name=cambi:full_ref=true and names
FeatureInputs ==
    {<<"c", "i", "e", "d", "e">>,
     <<"c", "a", "m", "b", "i", ":", "f", "u", "l", "l", "_", "r", "e", "f", "=", "t", "r", "u", "e">>,
     <<"n", "a", "m", "e", "=", "p", "s", "n", "r">>,
     <<"n", "a", "m", "e", "=", "c", "a", "m", "b", "i", ":", "f", "u", "l", "l", "_", "r", "e", "f", "=", "t", "r", "u", "e">>,
     <<"n", "a", "m", "e", "s">>}

\* the model parameters callers supply: none, or enable_transform=true
ModelParamInputs == {<<>>, <<<<"e", "n", "a", "b", "l", "e", "_", "t", "r", "a", "n", "s", "f", "o", "r", "m", "=", "t", "r", "u", "e">>>>}

\* an object whose calculate call for vmaf has stored the options supplied
\* (in the class-level options) and resolved the model path
InitFeatures ==
    \E features \in UNION {[1..c -> FeatureInputs] : c \in 0..MaxFeatures},
       model_params \in ModelParamInputs, s \in 1..MaxSubsample :
        /\ ffmpeg_filters = {"libvmaf", "psnr", "ssim", "vif", "scale", "split"}
        /\ num_frames = MaxFrames
        /\ DEFAULT_VMAF_OPTIONS =
              [model_params |-> model_params, n_threads |-> 0, n_subsample |-> s,
               features |-> features]
        /\ fs = EmptyDict
        /\ self = [o \in AllObjects |->
                     IF o = 1
                     THEN __init__([ref |-> Path("/a", "ref", "mkv"),
                                    dist |-> Path("/a", "dist", "mkv"),
                                    scaling_algorithm |-> DEFAULT_SCALER]
                                       @@ Options(25, FALSE, FALSE, FALSE),
                                   0, ffmpeg_filters).self
                     ELSE NullSelf]
        /\ pc = [o \in AllObjects |-> IF o = 1 THEN "idle" ELSE "new"]
        /\ call = [o \in AllObjects |->
                     IF o = 1
                     THEN [NoCall EXCEPT !.metrics = <<"vmaf">>, !.n = 1, !.n_subsample = s]
                     ELSE NoCall]
        /\ spawned = [o \in AllObjects |-> IF o = 1 THEN <<"ffmpeg -version">> ELSE <<>>]
        /\ result = [o \in AllObjects |-> NoResult]

\* a call of _get_libvmaf_filter_opts, as _get_filter_opts makes it
GetLibvmafFilterOpts(o) ==
    /\ pc[o] = "idle"
    /\ result[o].op = "none"
    /\ result' = [result EXCEPT ![o] =
                     [op |-> "_get_libvmaf_filter_opts", exc |-> NoErr,
                      ret |-> _get_libvmaf_filter_opts("vmaf_v0.6.1.json", DEFAULT_VMAF_OPTIONS,
                                                       self[o].temp_files["libvmaf"]),
                      finally |-> FALSE]]
    /\ UNCHANGED <<ffmpeg_filters, num_frames, DEFAULT_VMAF_OPTIONS, fs, self, pc, call,
                   spawned>>

NextFeatures == GetLibvmafFilterOpts(1)

\* the options of the libvmaf stage built from the options of a call
SpecFeatures == InitFeatures /\ [][NextFeatures]_vars

\* a caller that runs metrics at a forced frame rate and then reads the
\* results in every form
ResultsInputs ==
    {[ref |-> Path("/a", "ref", "mkv"), dist |-> Path("/a", "dist", "mkv"),
      scaling_algorithm |-> DEFAULT_SCALER] @@ Options(25, FALSE, FALSE, FALSE)}

ResultsRequests ==
    {<<"psnr">>, <<"vmaf">>, <<"psnr", "vif">>, <<"ssim", "psnr", "vmaf">>}

NextResults ==
    \E o \in {1} :
        \/ Step(o, ResultsInputs, ResultsRequests, MaxCalls)
        \/ GetGlobalStats(o)
        \/ GetResultsJson(o)

\* one object, its runs followed by any of the result accessors
SpecResults == Init /\ [][NextResults]_vars

\* largest frame-count cap
MaxCap == 4

\* An object made for a pair of 1..MaxFrames frames with a frame-count cap
\* (or none) and a seek offset inside the pair.
InitCap ==
    \E F \in 1..MaxFrames, cap \in 0..MaxCap, skip \in 0..(MaxFrames - 1) :
        /\ skip < F
        /\ ffmpeg_filters = {"libvmaf", "psnr", "ssim", "vif", "scale", "split"}
        /\ num_frames = F
        /\ DEFAULT_VMAF_OPTIONS = [n_subsample |-> DEFAULT_VMAF_SUBSAMPLE]
        /\ fs = EmptyDict
        /\ self = [o \in AllObjects |->
                     IF o = 1
                     THEN __init__([ref |-> Path("/a", "ref", "mkv"),
                                    dist |-> Path("/a", "dist", "mkv"),
                                    scaling_algorithm |-> DEFAULT_SCALER]
                                       @@ Options(25, FALSE, FALSE, FALSE),
                                   0, ffmpeg_filters).self
                              @@ [num_frames |-> cap, start_offset |-> skip]
                     ELSE NullSelf]
        /\ pc = [o \in AllObjects |-> IF o = 1 THEN "idle" ELSE "new"]
        /\ call = [o \in AllObjects |-> NoCall]
        /\ spawned = [o \in AllObjects |-> <<>>]
        /\ result = [o \in AllObjects |-> NoResult]

CapRequests == {<<"psnr">>, <<"ssim", "psnr">>, <<"vif">>, <<"vmaf">>}

\* one calculate call of the object
NextCap ==
    \E o \in {1} :
        \/ CalculateStart(o, CapRequests, 1)
        \/ _run_ffmpeg_command(o)
        \/ ReadTempFiles(o)
        \/ ReadFfmpegOutput(o)
        \/ CleanupTempFiles(o)

SpecCap == InitCap /\ [][NextCap]_vars

\* lines of an ssim stats file read as text
MaxLines == 10

\* the SSIM values the engine writes (in millionths), and the dB value at
\* the end of the line (0 standing for inf)
SsimValues == <<937213, 961733, 948245, 1000000>>

SsimDecibels == {0, 12860441}

\* what the ssim filter measured on frame i of a pair, the four components
\* of frame 1 being those at positions c in SsimValues
ssim_entry(i, c, db) ==
    LET at(j) == SsimValues[((c[j] + i - 2) % Len(SsimValues)) + 1]
    IN  [n |-> i, Y |-> at(1), U |-> at(2), V |-> at(3), All |-> at(4), db |-> db]

\* an object whose engine run has left an ssim stats file of F lines
InitSsim ==
    \E F \in 1..MaxLines, c \in [1..4 -> DOMAIN SsimValues], db \in SsimDecibels :
        LET obj == __init__([ref |-> Path("/a", "ref", "mkv"),
                             dist |-> Path("/a", "dist", "mkv"),
                             scaling_algorithm |-> DEFAULT_SCALER]
                                @@ Options(25, FALSE, FALSE, FALSE),
                            0, {"psnr", "ssim", "vif", "scale", "split"}).self
            entries == [i \in 1..F |-> ssim_entry(i, c, db)]
        IN  /\ ffmpeg_filters = {"psnr", "ssim", "vif", "scale", "split"}
            /\ num_frames = F
            /\ DEFAULT_VMAF_OPTIONS = [n_subsample |-> DEFAULT_VMAF_SUBSAMPLE]
            /\ fs = (obj.temp_files["ssim"] :>
                        (File(TRUE, entries) @@
                         [text |-> [i \in 1..F |->
                                      ssim_line(i, entries[i].Y, entries[i].U, entries[i].V,
                                                entries[i].All, db)]]))
            /\ self = [o \in AllObjects |-> IF o = 1 THEN obj ELSE NullSelf]
            /\ pc = [o \in AllObjects |-> IF o = 1 THEN "idle" ELSE "new"]
            /\ call = [o \in AllObjects |->
                         IF o = 1 THEN [NoCall EXCEPT !.metrics = <<"ssim">>, !.n = 1]
                         ELSE NoCall]
            /\ spawned = [o \in AllObjects |-> <<>>]
            /\ result = [o \in AllObjects |-> NoResult]

\* _read_ssim_temp_file on the text of the file
ReadSsimText(o) ==
    /\ pc[o] = "idle"
    /\ result[o].op = "none"
    /\ self[o].temp_files["ssim"] \in DOMAIN fs
    /\ LET r == read_ssim_text(self[o].data["ssim"], fs[self[o].temp_files["ssim"]].text, 1)
       IN  /\ self' = [self EXCEPT ![o].data["ssim"] = r.series]
           /\ result' = [result EXCEPT ![o] =
                            [op |-> "_read_ssim_temp_file", exc |-> r.exc, ret |-> <<>>,
                             finally |-> FALSE]]
    /\ UNCHANGED <<ffmpeg_filters, num_frames, DEFAULT_VMAF_OPTIONS, fs, pc, call, spawned>>

NextSsim == ReadSsimText(1)

\* _read_ssim_temp_file applied to the files the ssim filter writes
SpecSsim == InitSsim /\ [][NextSsim]_vars

\* lines the ssim filter wrote to a stats file that also holds a blank line
MaxTextLines == 3

\* a line without a token: an empty line and one of white space only
BlankLines == {<<"\n">>, <<" ", "\n">>}

\* an object whose ssim stats file of F lines has, or has not, a blank line
\* ahead of its lines, between two of them or after the last
InitBlank ==
    \E F \in 1..MaxTextLines, c \in {<<1, 2, 3, 4>>, <<4, 4, 4, 4>>}, db \in SsimDecibels,
       gap \in {<<>>} \cup {<<blank>> : blank \in BlankLines}, at \in 0..MaxTextLines :
        LET obj == __init__([ref |-> Path("/a", "ref", "mkv"),
                             dist |-> Path("/a", "dist", "mkv"),
                             scaling_algorithm |-> DEFAULT_SCALER]
                                @@ Options(25, FALSE, FALSE, FALSE),
                            0, {"psnr", "ssim", "vif", "scale", "split"}).self
            entries == [i \in 1..F |-> ssim_entry(i, c, db)]
            lines == [i \in 1..F |->
                        ssim_line(i, entries[i].Y, entries[i].U, entries[i].V,
                                  entries[i].All, db)]
        IN  /\ at <= F
            /\ ffmpeg_filters = {"psnr", "ssim", "vif", "scale", "split"}
            /\ num_frames = F
            /\ DEFAULT_VMAF_OPTIONS = [n_subsample |-> DEFAULT_VMAF_SUBSAMPLE]
            /\ fs = (obj.temp_files["ssim"] :>
                        (File(TRUE, entries) @@
                         [text |-> SubSeq(lines, 1, at) \o gap \o SubSeq(lines, at + 1, F)]))
            /\ self = [o \in AllObjects |-> IF o = 1 THEN obj ELSE NullSelf]
            /\ pc = [o \in AllObjects |-> IF o = 1 THEN "idle" ELSE "new"]
            /\ call = [o \in AllObjects |->
                         IF o = 1 THEN [NoCall EXCEPT !.metrics = <<"ssim">>, !.n = 1]
                         ELSE NoCall]
            /\ spawned = [o \in AllObjects |-> <<>>]
            /\ result = [o \in AllObjects |-> NoResult]

\* _read_ssim_temp_file applied to a stats file with a blank line
SpecBlank == InitBlank /\ [][NextSsim]_vars

\* frames of a series whose statistics are taken
MaxValues == 4
\* largest value of a frame, in 0.002 steps
MaxValue == 4

\* The psnr_avg values of the frames an engine run left in a series: even
\* thousandths, so that the mean of two of them is a whole thousandth.
StatSeries == UNION {[1..c -> {2 * v : v \in 0..MaxValue}] : c \in 1..MaxValues}

\* an object that has harvested a psnr series with the values drawn
InitStats ==
    \E values \in StatSeries :
        /\ ffmpeg_filters = {"psnr", "ssim", "vif", "scale", "split"}
        /\ num_frames = Len(values)
        /\ DEFAULT_VMAF_OPTIONS = [n_subsample |-> DEFAULT_VMAF_SUBSAMPLE]
        /\ fs = EmptyDict
        /\ self = [o \in AllObjects |->
                     IF o = 1
                     THEN [__init__([ref |-> Path("/a", "ref", "mkv"),
                                     dist |-> Path("/a", "dist", "mkv"),
                                     scaling_algorithm |-> DEFAULT_SCALER]
                                        @@ Options(0, FALSE, FALSE, FALSE),
                                    0, ffmpeg_filters).self
                             EXCEPT !.data["psnr"] =
                                 [i \in 1..Len(values) |-> [n |-> i, psnr_avg |-> values[i]]]]
                     ELSE NullSelf]
        /\ pc = [o \in AllObjects |-> IF o = 1 THEN "idle" ELSE "new"]
        /\ call = [o \in AllObjects |->
                     IF o = 1 THEN [NoCall EXCEPT !.metrics = <<"psnr">>, !.n = 1] ELSE NoCall]
        /\ spawned = [o \in AllObjects |-> <<>>]
        /\ result = [o \in AllObjects |-> NoResult]

NextStats == GetGlobalStats(1)

\* get_global_stats applied to series of every small shape
SpecStats == InitStats /\ [][NextStats]_vars

(* ------------------------------ properties ---------------------------- *)

\* the frame indices of a series, in order
Ns(series) == [i \in 1..Len(series) |-> series[i].n]

NoDuplicateN(series) ==
    \A i, j \in 1..Len(series) : series[i].n = series[j].n => i = j

\* calculate of object o has returned normally and nothing was called since
Returned(o) ==
    pc[o] = "idle" /\ result[o].op = "calculate" /\ result[o].exc = NoErr

\* calculate of object o has ended through its finally block
Finished(o) ==
    pc[o] = "idle" /\ result[o].op = "calculate" /\ result[o].finally

EngineRan(o) == "ffmpeg -filter_complex" \in Range(spawned[o])

\* C1: after any sequence of calculate calls on one object, every requested
\* series holds exactly the frames of the most recent run: no frame index
\* occurs twice in it and it is no longer than the frames of the input pair.
C1_SeriesOfLastRun ==
    \A o \in AllObjects :
        Returned(o) =>
            \A m \in Range(call[o].metrics) :
                NoDuplicateN(self[o].data[m]) /\ Len(self[o].data[m]) <= num_frames

\* C2: on an object constructed with dry_run, a calculate call that got as
\* far as the engine invocation (valid metrics, frame rates probed) does not
\* run the engine command, harvests nothing and returns an empty result
\* without raising.
C2_DryRunReturnsEmpty ==
    \A o \in AllObjects :
        (Finished(o) /\ self[o].dry_run
            /\ result[o].exc.msg # "could not parse FPS from file") =>
            /\ ~EngineRan(o)
            /\ self[o].data = EmptyData
            /\ result[o].exc = NoErr
            /\ DOMAIN result[o].ret = {}

TempFiles(o) == {self[o].temp_files[f] : f \in DOMAIN self[o].temp_files}

\* C3: once calculate has entered its try block, when it finishes (by return
\* or by exception) no file is left at any artifact path of the object unless
\* keep_tmp_files is set; and no step of an object with keep_tmp_files set
\* removes a file.
C3_CleanupGuaranteed ==
    /\ [](\A o \in {1} :
            (Finished(o) /\ ~self[o].keep_tmp_files) => TempFiles(o) \cap DOMAIN fs = {})
    /\ [][\A o \in {1} :
            (pc[o] # "new" /\ self[o].keep_tmp_files) => DOMAIN fs \subseteq DOMAIN fs']_vars

\* C3 witness: a calculate whose engine run wrote artifacts ended with an
\* exception, on an object that does not keep its artifacts.
C3_Witness ==
    /\ Finished(1) /\ ~self[1].keep_tmp_files
    /\ result[1].exc # NoErr
    /\ EngineRan(1)
    /\ Range(call[1].metrics) \cap FileMetrics # {}

Constructed(o) == pc[o] \notin {"new", "dead"}

\* C4: two objects constructed on different (reference, distorted) path
\* pairs in the same working directory have no artifact path in common, and
\* an object that reads its artifacts after a successful engine run finds
\* every artifact the engine wrote for it.
C4_DisjointArtifacts ==
    /\ \A o1, o2 \in AllObjects :
          (Constructed(o1) /\ Constructed(o2)
              /\ <<self[o1].ref, self[o1].dist>> # <<self[o2].ref, self[o2].dist>>) =>
              TempFiles(o1) \cap TempFiles(o2) = {}
    /\ \A o \in AllObjects :
          pc[o] = "read_temp_files" =>
              \A m \in Range(call[o].metrics) \cap FileMetrics :
                  self[o].temp_files[METRIC_TO_FILTER_MAP[m]] \in DOMAIN fs

ConfigurationErrors ==
    {"Reference file not found", "Distorted file not found",
     "YUV files are not supported", "Allowed scaling algorithms",
     "No metrics specified!", "No such metric",
     "Your ffmpeg version does not have the filter"}

\* C5: when the constructor or calculate raises a configuration error, that
\* operation has spawned no process.
C5_ConfigErrorsBeforeSpawn ==
    \A o \in AllObjects :
        (result[o].op \in {"__init__", "calculate"}
            /\ result[o].exc.msg \in ConfigurationErrors) => spawned[o] = <<>>

\* C5 witness: calculate rejected a metric whose filter the probed engine
\* lacks (the constructor's probe being the only process so far).
C5_Witness ==
    /\ result[1].op = "calculate"
    /\ result[1].exc.msg = "Your ffmpeg version does not have the filter"
    /\ "libvmaf" \notin Range(self[1].available_filters)
    /\ "vmaf" \in Range(call[1].metrics)

\* C6: every exception that reaches the caller of the constructor, calculate
\* or get_results_csv is an FfmpegQualityMetricsError.
C6_SingleTypedError ==
    \A o \in AllObjects :
        result[o].exc # NoErr => result[o].exc.type = "FfmpegQualityMetricsError"

\* C7: when reading the artifacts raises, the series of the object are as
\* they were before the call (no record harvested by the failed call stays).
C7_NoPartialResults ==
    [][\A o \in AllObjects :
        (pc[o] = "read_temp_files" /\ call'[o].exc # NoErr) =>
            self'[o].data = self[o].data]_vars

Distinct(seq) == \A i, j \in 1..Len(seq) : seq[i] = seq[j] => i = j

\* C8: a calculate call for distinct supported metrics that returns normally
\* from a real run returns a mapping whose keys are exactly the requested
\* metric names.
C8_ReturnsRequestedKeys ==
    \A o \in AllObjects :
        (Returned(o) /\ ~self[o].dry_run /\ Distinct(call[o].metrics)) =>
            DOMAIN result[o].ret = Range(call[o].metrics)

\* calculate of a fresh object o has returned the series of the one metric m
SingleMetric(o, m) ==
    Returned(o) /\ call[o].n = 1 /\ call[o].metrics = <<m>>

\* C9 as stated: for a single-metric request on a fresh object, whatever the
\* VMAF subsampling interval, the n values of psnr, ssim and vmaf are
\* 1, 2, ..., L and those of vif are 0, 1, ..., L - 1.
C9_ContiguousFrameIndex ==
    \A o \in AllObjects :
        /\ \A m \in {"psnr", "ssim", "vmaf"} :
              SingleMetric(o, m) =>
                  Ns(self[o].data[m]) = [i \in 1..Len(self[o].data[m]) |-> i]
        /\ SingleMetric(o, "vif") =>
              Ns(self[o].data["vif"]) = [i \in 1..Len(self[o].data["vif"]) |-> i - 1]

\* C9 amended: for a single-metric request on a fresh object, psnr and ssim
\* hold one record per frame with n = 1, 2, ..., L; vif holds one record per
\* frame with n = 0, 1, ..., L - 1; vmaf holds one record per frame the
\* engine logged, which is every k-th frame for the subsampling interval k
\* in effect, with n = 1, 1 + k, 1 + 2k, ... (so 1, 2, ..., L when k = 1).
C9_FrameIndexBySubsample ==
    \A o \in AllObjects :
        /\ \A m \in {"psnr", "ssim"} :
              SingleMetric(o, m) => Ns(self[o].data[m]) = [i \in 1..num_frames |-> i]
        /\ SingleMetric(o, "vif") =>
              Ns(self[o].data["vif"]) = [i \in 1..num_frames |-> i - 1]
        /\ SingleMetric(o, "vmaf") =>
              LET k == call[o].n_subsample
              IN  Ns(self[o].data["vmaf"]) =
                      [i \in 1..((num_frames + k - 1) \div k) |-> 1 + (i - 1) * k]

\* C9 witness: a fresh object returned a vmaf series computed with a
\* subsampling interval above 1 that holds more than one record.
C9_Witness ==
    /\ SingleMetric(1, "vmaf")
    /\ call[1].n_subsample > 1
    /\ Len(self[1].data["vmaf"]) > 1

\* the data lines of the table get_results_csv returned whose n is n
RowsOf(table, n) == {i \in 2..Len(table) : table[i][index(table[1], "n")] = n}

\* C10: the table of get_results_csv has exactly one data row for each frame
\* index that occurs in every non-empty series, and no row for another index.
C10_InnerJoinOnN ==
    \A o \in AllObjects :
        (pc[o] = "idle" /\ result[o].op = "get_results_csv" /\ result[o].exc = NoErr) =>
            LET present == {m \in MetricNames : self[o].data[m] # <<>>}
                common == {n \in 0..(num_frames + 1) :
                              \A m \in present : n \in Range(Ns(self[o].data[m]))}
            IN  \A n \in 0..(num_frames + 1) :
                    Cardinality(RowsOf(result[o].ret, n)) = IF n \in common THEN 1 ELSE 0
\* get_results_csv of object o has returned a table and nothing was called since
CsvReturned(o) ==
    pc[o] = "idle" /\ result[o].op = "get_results_csv" /\ result[o].exc = NoErr

\* C11: in the table of get_results_csv the column n is first,
\* input_file_dist and input_file_ref are the last two columns, every
\* sub-metric column of every computed metric lies between them, every data
\* line has as many values as the header, and the last two values of every
\* data line are the distorted and the reference path.
C11_CsvColumns ==
    \A o \in AllObjects :
        CsvReturned(o) =>
            LET table == result[o].ret
                header == table[1]
                w == Len(header)
            IN  /\ header[1] = "n"
                /\ header[w - 1] = "input_file_dist" /\ header[w] = "input_file_ref"
                /\ \A m \in MetricNames :
                      self[o].data[m] # <<>> =>
                          \A k \in DOMAIN self[o].data[m][1] \ {"n"} :
                              \E j \in 2..(w - 2) : header[j] = k
                /\ \A i \in 2..Len(table) :
                      /\ Len(table[i]) = w
                      /\ table[i][w - 1] = str(self[o].dist)
                      /\ table[i][w] = str(self[o].ref)

\* C11 witness: a table with data lines was returned by an object holding a
\* vmaf series (whose records carry n last) and a psnr series.
C11_Witness ==
    /\ CsvReturned(1)
    /\ Len(result[1].ret) > 1
    /\ self[1].data["vmaf"] # <<>> /\ self[1].data["psnr"] # <<>>
\* the metrics of object o whose series is not empty
Computed(o) == {m \in MetricNames : self[o].data[m] # <<>>}

\* get_results_json of object o has returned and nothing was called since
JsonReturned(o) == pc[o] = "idle" /\ result[o].op = "get_results_json"

\* C12: the document of get_results_json has as top-level keys exactly the
\* metrics whose series is not empty, plus global, input_file_dist and
\* input_file_ref; each metric key holds one record per frame of the series,
\* with the keys of that frame; global has an entry for exactly those metrics.
C12_JsonDocumentKeys ==
    \A o \in AllObjects :
        JsonReturned(o) =>
            LET json == result[o].ret
            IN  /\ DOMAIN json = Computed(o) \cup {"global", "input_file_dist", "input_file_ref"}
                /\ \A m \in Computed(o) :
                      /\ Len(json[m]) = Len(self[o].data[m])
                      /\ \A i \in 1..Len(json[m]) :
                            DOMAIN json[m][i] = DOMAIN self[o].data[m][i]
                /\ DOMAIN json["global"] = Computed(o)

\* C12 witness: a document was returned by an object that holds some series
\* and lacks others.
C12_Witness ==
    /\ JsonReturned(1)
    /\ Computed(1) # {} /\ Computed(1) # MetricNames

\* C13: re-parsing the document of get_results_json as load_json_data does
\* recovers, for every computed metric, the per-frame records the object
\* holds, and the global stats the object holds.
C13_JsonRoundTrip ==
    \A o \in AllObjects :
        JsonReturned(o) =>
            LET loaded == load_json_data(result[o].ret)
            IN  /\ DOMAIN loaded.metrics = Computed(o)
                /\ \A m \in Computed(o) : loaded.metrics[m] = self[o].data[m]
                /\ loaded.global_stats = self[o].global_stats

\* C13 witness: a document was returned that holds a value with a third
\* decimal and a value whose text is shorter than three decimals.
C13_Witness ==
    /\ JsonReturned(1)
    /\ \E m \in Computed(1) : \E i, j \in 1..Len(result[1].ret[m]) :
          \E k \in DOMAIN result[1].ret[m][i] \ {"n"} :
              /\ result[1].ret[m][i][k].digits = 3
              /\ result[1].ret[m][j][k].digits < 3
\* get_global_stats of object o has returned and nothing was called since
StatsReturned(o) == pc[o] = "idle" /\ result[o].op = "get_global_stats"

Statistics == {"average", "median", "stdev", "min", "max"}

\* C14: what get_global_stats returns is determined by the series the object
\* holds: it has an entry for exactly the metrics with a non-empty series,
\* each entry has exactly the keys of that series' first frame except n, each
\* with the five statistics, and it is what the object keeps as its global
\* stats; a further call without a calculate in between returns the same
\* value, and no call changes the series.
C14_GlobalStatsDetermined ==
    /\ [](\A o \in {1} :
            StatsReturned(o) =>
                /\ DOMAIN result[o].ret = Computed(o)
                /\ \A m \in Computed(o) :
                      /\ DOMAIN result[o].ret[m] = DOMAIN self[o].data[m][1] \ {"n"}
                      /\ \A k \in DOMAIN result[o].ret[m] :
                            DOMAIN result[o].ret[m][k] = Statistics
                /\ result[o].ret = self[o].global_stats)
    /\ [][\A o \in {1} :
            /\ result'[o].op = "get_global_stats" => self'[o].data = self[o].data
            /\ (StatsReturned(o) /\ result'[o].op = "get_global_stats") =>
                  result'[o].ret = result[o].ret]_vars

\* C14 witness: stats were returned by an object that holds some series and
\* lacks others, after its second calculate call.
C14_Witness ==
    /\ StatsReturned(1)
    /\ call[1].n = 2
    /\ Computed(1) # {} /\ Computed(1) # MetricNames
\* the values of sub-metric k in the series of frames
ValuesOf(series, k) == [i \in 1..Len(series) |-> series[i][k]]

Total(values) == Sum(values, 1)

\* the k-th smallest of values (k = 1 for the smallest)
KthSmallest(values, k) ==
    CHOOSE x \in Range(values) :
        /\ Cardinality({i \in 1..Len(values) : values[i] < x}) < k
        /\ k <= Cardinality({i \in 1..Len(values) : values[i] <= x})

\* the stats st report the extremes of values, in this order
Ordered(st, values) ==
    /\ \A i \in 1..Len(values) : st.min <= values[i] /\ values[i] <= st.max
    /\ st.min \in Range(values) /\ st.max \in Range(values)
    /\ st.min <= st.median /\ st.median <= st.max
    /\ st.min <= st.average /\ st.average <= st.max

\* C15 as stated: for the values of every sub-metric of every non-empty
\* series, get_global_stats reports average = sum / count, the extremes as
\* min and max, median = the middle value (the mean of the two middle values
\* for an even count) and stdev = the population standard deviation, so
\* stdev^2 = sum(v^2) / count - (sum / count)^2; hence min <= median <= max
\* and min <= average <= max.
C15_ExactStatistics ==
    \A o \in AllObjects :
        StatsReturned(o) =>
            \A m \in DOMAIN result[o].ret : \A k \in DOMAIN result[o].ret[m] :
                LET values == ValuesOf(self[o].data[m], k)
                    c == Len(values)
                    st == result[o].ret[m][k]
                IN  /\ st.average * c = Total(values)
                    /\ IF c % 2 = 1 THEN st.median = KthSmallest(values, (c + 1) \div 2)
                       ELSE 2 * st.median = KthSmallest(values, c \div 2)
                                               + KthSmallest(values, c \div 2 + 1)
                    /\ st.stdev * st.stdev * c * c
                          = c * Total([i \in 1..c |-> values[i] * values[i]])
                              - Total(values) * Total(values)
                    /\ Ordered(st, values)

\* C15 amended: each statistic is the stated quantity rounded to three
\* decimals, so it lies within half a thousandth of it: average of
\* sum / count, median of the middle value (of the mean of the two middle
\* values for an even count), stdev of the population standard deviation;
\* min and max are the extremes; hence min <= median <= max and
\* min <= average <= max.
C15_RoundedStatistics ==
    \A o \in AllObjects :
        StatsReturned(o) =>
            \A m \in DOMAIN result[o].ret : \A k \in DOMAIN result[o].ret[m] :
                LET values == ValuesOf(self[o].data[m], k)
                    c == Len(values)
                    st == result[o].ret[m][k]
                    d == c * Total([i \in 1..c |-> values[i] * values[i]])
                            - Total(values) * Total(values)
                    below == IF st.stdev = 0 THEN 0 ELSE (2 * st.stdev - 1) * c
                    above == (2 * st.stdev + 1) * c
                IN  /\ 2 * st.average * c - c <= 2 * Total(values)
                    /\ 2 * Total(values) <= 2 * st.average * c + c
                    /\ IF c % 2 = 1 THEN st.median = KthSmallest(values, (c + 1) \div 2)
                       ELSE LET two == KthSmallest(values, c \div 2)
                                          + KthSmallest(values, c \div 2 + 1)
                            IN  2 * st.median - 1 <= two /\ two <= 2 * st.median + 1
                    /\ st.stdev >= 0
                    /\ below * below <= 4 * d /\ 4 * d <= above * above
                    /\ Ordered(st, values)

\* C15 witness: stats were returned for a series of more than two values
\* whose average and standard deviation are not whole thousandths.
C15_Witness ==
    /\ StatsReturned(1)
    /\ LET values == ValuesOf(self[1].data["psnr"], "psnr_avg")
           c == Len(values)
       IN  /\ c > 2
           /\ Total(values) % c # 0
           /\ \A s \in 0..(2 * MaxValue) :
                 s * s * c * c # c * Total([i \in 1..c |-> values[i] * values[i]])
                                   - Total(values) * Total(values)
\* The series of metric m for the input pair of num_frames frames, with the
\* libvmaf interval k: it names neither the request nor its other metrics.
SeriesFor(m, k) ==
    CASE m = "psnr" -> [i \in 1..num_frames |-> [n |-> i, psnr_avg |-> Score(i - 1)]]
      [] m = "ssim" -> [i \in 1..num_frames |-> [n |-> i, ssim_avg |-> Score(i - 1)]]
      [] m = "vif" -> [i \in 1..num_frames |-> [n |-> i - 1, scale_0 |-> Score(i - 1)]]
      [] m = "vmaf" -> [j \in 1..((num_frames + k - 1) \div k) |->
                          [n |-> 1 + (j - 1) * k, vmaf |-> Score((j - 1) * k)]]

\* C16: the series a fresh object harvests for a metric m of its request is
\* the same whatever other metrics the request holds (and whichever graph
\* the engine version calls for): it is the series of m for the input pair
\* and the configuration alone.
C16_RequestIndependence ==
    \A o \in AllObjects :
        (Returned(o) /\ call[o].n = 1 /\ ~self[o].dry_run) =>
            \A m \in Range(call[o].metrics) :
                self[o].data[m] = SeriesFor(m, call[o].n_subsample)

\* C16 witness: a fresh object returned from a request of three metrics,
\* two of which another request holds without the third.
C16_Witness ==
    /\ Returned(1) /\ call[1].n = 1
    /\ call[1].metrics = <<"ssim", "psnr", "vmaf">>
    /\ <<"ssim", "psnr">> \in MetricRequests
    /\ self[1].data["psnr"] # <<>> /\ self[1].data["vmaf"] # <<>>
\* the frames the run of object o processes
Limit(o) == frames_processed(num_frames, self[o])

Min(a, b) == IF a < b THEN a ELSE b

\* a fresh object o made with a cap and an offset has returned from calculate
CappedReturned(o) ==
    Returned(o) /\ call[o].n = 1 /\ "num_frames" \in DOMAIN self[o]

\* C17 as stated: with a cap k (0 for none) and a seek offset of s frames on
\* a source of F frames, every requested series has exactly min(k, F - s)
\* records (F - s without a cap) with n = 1, 2, ..., that number.
C17_CapOnEverySeries ==
    \A o \in AllObjects :
        CappedReturned(o) =>
            LET k == self[o].num_frames
                rest == num_frames - self[o].start_offset
                L == IF k = 0 THEN rest ELSE Min(k, rest)
            IN  \A m \in Range(call[o].metrics) :
                    Ns(self[o].data[m]) = [i \in 1..L |-> i]

\* C17 amended: with a cap k (0 for none) and a seek offset of s frames on a
\* source of F frames, L = min(k, F - s) frames are processed (F - s without
\* a cap, all F without either); a requested psnr or ssim series has exactly
\* L records with n = 1..L, a vif series L records with n = 0..L - 1, and a
\* vmaf series one record for every i-th of the L frames (i the subsampling
\* interval) with n = 1, 1 + i, ...; a cap above F - s is not an error.
C17_CapByMetric ==
    \A o \in AllObjects :
        CappedReturned(o) =>
            LET k == self[o].num_frames
                rest == num_frames - self[o].start_offset
                L == IF k = 0 THEN rest ELSE Min(k, rest)
                i == call[o].n_subsample
            IN  \A m \in Range(call[o].metrics) :
                    Ns(self[o].data[m]) =
                        CASE m \in {"psnr", "ssim"} -> [j \in 1..L |-> j]
                          [] m = "vif" -> [j \in 1..L |-> j - 1]
                          [] m = "vmaf" -> [j \in 1..((L + i - 1) \div i) |-> 1 + (j - 1) * i]

\* C17 witness: a run with a cap below the frames left after a seek
\* returned a psnr series.
C17_Witness ==
    /\ CappedReturned(1)
    /\ self[1].start_offset > 0
    /\ self[1].num_frames > 0
    /\ self[1].num_frames < num_frames - self[1].start_offset
    /\ "psnr" \in Range(call[1].metrics)
    /\ Len(self[1].data["psnr"]) = self[1].num_frames
\* the last request of object o names a metric whose filter the object
\* does not have
Unsupported(o) ==
    \E m \in Range(call[o].metrics) :
        metric_filter(m) \notin Range(self[o].available_filters)

UnsupportedMetricErrors ==
    {FfmpegQualityMetricsError("No such metric"),
     FfmpegQualityMetricsError("Your ffmpeg version does not have the filter")}

\* C18: the available filters of an object are always among the known
\* filters that the engine lists, and a calculate call whose request names
\* a metric whose filter is not available never runs the metric-computing
\* engine command: it ends at once with an unsupported-metric error.
C18_UnavailableMetricRejected ==
    \A o \in AllObjects :
        /\ Range(self[o].available_filters)
               \subseteq (Range(POSSIBLE_FILTERS) \cap ffmpeg_filters)
        /\ (call[o].n > 0 /\ Unsupported(o)) =>
               /\ pc[o] = "idle"
               /\ ~EngineRan(o)
               /\ result[o].op = "calculate" => result[o].exc \in UnsupportedMetricErrors

\* C18 witness: on an engine without libvmaf, an object that has psnr, ssim
\* and vif was asked for ssim, psnr and vmaf, and the call ended with the
\* error, no engine command run.
C18_Witness ==
    /\ "libvmaf" \notin ffmpeg_filters
    /\ Range(self[1].available_filters) = {"psnr", "ssim", "vif"}
    /\ call[1].metrics = <<"ssim", "psnr", "vmaf">>
    /\ result[1].op = "calculate"
    /\ result[1].exc \in UnsupportedMetricErrors
    /\ ~EngineRan(1)
\* the ssim stats file of object o has been read as text
SsimRead(o) == result[o].op = "_read_ssim_temp_file"

\* a value in thousandths is the written value in millionths, rounded
RoundedFrom(thousandths, millionths) ==
    2 * (1000 * thousandths - millionths) \in -1000..1000

\* C19: reading an ssim stats file whose lines hold n, Y, U, V, All and a
\* trailing parenthesised dB value gives, line by line, a record with exactly
\* the keys n, ssim_y, ssim_u, ssim_v and ssim_avg: the trailing value is
\* gone, Y, U and V are lower-cased under the prefix ssim_, All is under
\* ssim_avg, and n is the integer the engine wrote.
C19_SsimRecordKeys ==
    \A o \in AllObjects :
        SsimRead(o) =>
            LET written == fs[self[o].temp_files["ssim"]].entries
                series == self[o].data["ssim"]
            IN  /\ result[o].exc = NoErr
                /\ Len(series) = Len(written)
                /\ \A i \in 1..Len(series) :
                      /\ DOMAIN series[i] = {"n", "ssim_y", "ssim_u", "ssim_v", "ssim_avg"}
                      /\ series[i].n = written[i].n
                      /\ RoundedFrom(series[i].ssim_y, written[i].Y)
                      /\ RoundedFrom(series[i].ssim_u, written[i].U)
                      /\ RoundedFrom(series[i].ssim_v, written[i].V)
                      /\ RoundedFrom(series[i].ssim_avg, written[i].All)

\* C19 witness: a file of ten lines whose first line holds four different
\* values and a finite dB value has been read, line 10 giving n = 10.
C19_Witness ==
    /\ SsimRead(1)
    /\ LET written == fs[self[1].temp_files["ssim"]].entries
       IN  /\ Len(written) >= 10
           /\ Cardinality({written[1].Y, written[1].U, written[1].V, written[1].All}) = 4
           /\ written[1].db # 0
    /\ Len(self[1].data["ssim"]) >= 10
    /\ self[1].data["ssim"][10].n = 10
\* the processes object o spawned to probe input_file in its current call
Probes(o, input_file) ==
    Cardinality({i \in DOMAIN spawned[o] : spawned[o][i] = "ffmpeg -i " \o input_file})

\* calculate of object o has built the engine command
CommandBuilt(o) == call[o].cmd # <<>>

\* C20: when the engine command is built for an object with a forced frame
\* rate, no frame-rate probe was spawned and both inputs carry the forced
\* rate; for an object without one, exactly one probe was spawned for the
\* reference and one for the distorted file, and each input carries the
\* rate probed for it.
C20_FrameRatesOfCommand ==
    \A o \in AllObjects :
        CommandBuilt(o) =>
            /\ call[o].cmd[1].i = self[o].ref /\ call[o].cmd[2].i = self[o].dist
            /\ IF self[o].framerate # 0
               THEN /\ Probes(o, "ref") = 0 /\ Probes(o, "dist") = 0
                    /\ call[o].cmd[1].r = self[o].framerate
                    /\ call[o].cmd[2].r = self[o].framerate
               ELSE /\ Probes(o, "ref") = 1 /\ Probes(o, "dist") = 1
                    /\ call[o].cmd[1].r = fps(self[o].ref)
                    /\ call[o].cmd[2].r = fps(self[o].dist)

\* C20 witness: an object without a forced rate built its command after
\* probing two files of different rates, and the engine ran.
C20_Witness ==
    /\ CommandBuilt(1)
    /\ self[1].framerate = 0
    /\ call[1].cmd[1].r # call[1].cmd[2].r
    /\ Probes(1, "dist") = 1
    /\ EngineRan(1)
\* C21: a warning never aborts.  A constructor that warned of equal paths
\* fails only if the filter listing fails; a calculate call that warned of
\* differing frame rates has built the engine command and, unless it is a
\* dry run, has run it; the only error raised before the command is built
\* is that of a probe that cannot be parsed; and the series a fresh object returns are those
\* of the input pair, warning or not.
C21_WarningsDoNotAbort ==
    \A o \in AllObjects :
        /\ (result[o].op = "__init__" /\ result[o].log # <<>> /\ result[o].exc # NoErr)
              => result[o].exc = Err("RuntimeError", "error running command")
        /\ call[o].warnings # <<>>
              => (CommandBuilt(o) /\ (~self[o].dry_run => EngineRan(o)))
        /\ (call[o].exc.type = "FfmpegQualityMetricsError" /\ ~CommandBuilt(o))
              => call[o].exc = FfmpegQualityMetricsError("could not parse FPS from file")
        /\ (Returned(o) /\ call[o].n = 1 /\ ~self[o].dry_run)
              => \A m \in Range(call[o].metrics) :
                    self[o].data[m] = SeriesFor(m, call[o].n_subsample)

\* C21 witness: a fresh object whose probed rates differ has warned, run the
\* engine and returned the psnr series of the pair.
C21_Witness ==
    /\ Returned(1) /\ call[1].n = 1
    /\ call[1].warnings = <<"ref, dist framerates differ">>
    /\ EngineRan(1)
    /\ self[1].data["psnr"] = SeriesFor("psnr", 1)
\* the engine invocation of the current call of object o has completed
EngineDone(o) == CommandBuilt(o) /\ (self[o].dry_run \/ EngineRan(o))

\* the steps of calculate in the order they may follow each other
CalculateOrder ==
    [new |-> {"new", "idle", "dead"}, dead |-> {"dead"}, idle |-> {"idle", "invoke"},
     invoke |-> {"invoke", "read_temp_files", "cleanup"},
     read_temp_files |-> {"read_temp_files", "read_ffmpeg_output", "cleanup"},
     read_ffmpeg_output |-> {"read_ffmpeg_output", "cleanup"},
     cleanup |-> {"cleanup", "idle"}]

\* C22: within a calculate call the order is invoke, read the artifacts,
\* scan the console text, clean up.  A series read from an artifact changes
\* only in the step that follows the completed engine invocation, the vif
\* series only in the step after that, and a temp file of the object
\* disappears only in the clean-up step, which comes last.
C22_InvokeReadScanCleanup ==
    [][\A o \in {1} :
          /\ pc'[o] \in CalculateOrder[pc[o]]
          /\ (\E m \in FileMetrics : self'[o].data[m] # self[o].data[m])
                => (pc[o] = "read_temp_files" /\ EngineDone(o))
          /\ self'[o].data["vif"] # self[o].data["vif"]
                => (pc[o] = "read_ffmpeg_output" /\ EngineDone(o))
          /\ ~((TempFiles(o) \cap DOMAIN fs) \subseteq DOMAIN fs')
                => pc[o] = "cleanup"]_vars

\* C22 witness: a call has run the engine, read a psnr artifact and removed
\* it.
C22_Witness ==
    /\ Finished(1) /\ EngineRan(1) /\ ~self[1].keep_tmp_files
    /\ call[1].metrics = <<"ssim", "psnr">>
    /\ self[1].data["psnr"] # <<>>
    /\ TempFiles(1) \cap DOMAIN fs = {}
\* calculate of object o has built its graph and not yet run it
GraphBuilt(o) == pc[o] = "invoke"

MetricChains(filter_chains) ==
    SelectSeq(filter_chains, LAMBDA c : c.filter \in MetricFilters)

SplitChains(filter_chains) ==
    SelectSeq(filter_chains, LAMBDA c : c.filter = "split")

\* the labels the timestamp-reset stages of the two branches write
ResetBranches(filter_chains) ==
    LET reset == SelectSeq(filter_chains, LAMBDA c : c.filter = "settb,setpts")
    IN  <<reset[1].outputs[1], reset[2].outputs[1]>>

\* C23: the graph built for a request of N metrics has exactly N metric
\* stages; for N > 1 exactly two split stages, the first on the distorted
\* and the second on the reference timestamp-reset branch, each with N
\* outputs; for N = 1 no split stage, the metric stage reading the two
\* timestamp-reset branches themselves.
C23_StagesOfGraph ==
    \A o \in AllObjects :
        GraphBuilt(o) =>
            LET fc == call[o].filter_chains
                N == Len(call[o].metrics)
                splits == SplitChains(fc)
            IN  /\ Len(MetricChains(fc)) = N
                /\ N > 1 => /\ Len(splits) = 2
                            /\ splits[1].inputs = <<ResetBranches(fc)[1]>>
                            /\ splits[2].inputs = <<ResetBranches(fc)[2]>>
                            /\ \A b \in 1..2 : /\ Len(splits[b].outputs) = N
                                               /\ splits[b].opts.n = N
                /\ N = 1 => /\ splits = <<>>
                            /\ MetricChains(fc)[1].inputs = ResetBranches(fc)

\* C23 witness: the graph for a request of three metrics is built, with its
\* two split stages.
C23_Witness ==
    /\ GraphBuilt(1)
    /\ Len(call[1].metrics) = 3
    /\ Len(SplitChains(call[1].filter_chains)) = 2

\* C24: for N > 1 metrics the i-th metric stage of the graph is that of the
\* i-th requested metric, with the options of that metric; its first input
\* is the i-th copy of the distorted split and its second the i-th copy of
\* the reference split; so every copy is read by exactly one metric stage.
C24_StagesInRequestOrder ==
    \A o \in AllObjects :
        (GraphBuilt(o) /\ Len(call[o].metrics) > 1) =>
            LET fc == call[o].filter_chains
                stages == MetricChains(fc)
                splits == SplitChains(fc)
                copies == Range(splits[1].outputs) \cup Range(splits[2].outputs)
            IN  /\ \A i \in 1..Len(stages) :
                      /\ stages[i].filter = METRIC_TO_FILTER_MAP[call[o].metrics[i]]
                      /\ stages[i].opts =
                            _get_filter_opts(stages[i].filter, self[o].temp_files,
                                             call[o].n_subsample)
                      /\ stages[i].inputs = <<splits[1].outputs[i], splits[2].outputs[i]>>
                /\ splits[1].inputs = <<"distpts">> /\ splits[2].inputs = <<"refpts">>
                /\ \A l \in copies :
                      Cardinality({<<i, j>> \in (1..Len(stages)) \X (1..2) :
                                      stages[i].inputs[j] = l}) = 1

\* C24 witness: the graph for ssim, psnr, vmaf is built, its second metric
\* stage being psnr on the second copies.
C24_Witness ==
    /\ GraphBuilt(1)
    /\ call[1].metrics = <<"ssim", "psnr", "vmaf">>
    /\ MetricChains(call[1].filter_chains)[2].filter = "psnr"
    /\ MetricChains(call[1].filter_chains)[2].inputs = <<"dist2", "ref2">>

\* C25: no calculate call changes the VMAF options a later call starts
\* from: the class-level default options stay as they are declared
\* (n_subsample 1), so that a call supplying no n_subsample uses 1.
C25_VmafDefaultsKept ==
    DEFAULT_VMAF_OPTIONS = [n_subsample |-> DEFAULT_VMAF_SUBSAMPLE]

\* object o made one calculate call, which harvested the whole series of
\* every metric of its request and nothing else
FreshSeries(o) ==
    /\ call[o].n = 1
    /\ ~self[o].dry_run
    /\ \A m \in MetricNames :
          self[o].data[m] = IF m \in Range(call[o].metrics)
                            THEN SeriesFor(m, call[o].n_subsample) ELSE <<>>

\* the sub-metric columns of a table
ValueColumns(table) ==
    {j \in 1..Len(table[1]) : table[1][j] \notin {"n", "input_file_dist", "input_file_ref"}}

\* C26: in the table of get_results_csv made from the series of one
\* calculate call, whatever the metrics (vif included), every data row holds
\* for each metric the value of one and the same decoded frame, and when all
\* series have one record per frame the table has one row per frame.
C26_RowsOfOneFrame ==
    \A o \in AllObjects :
        (CsvReturned(o) /\ FreshSeries(o)) =>
            LET table == result[o].ret
            IN  /\ \A i \in 2..Len(table) :
                      \E k \in 0..(num_frames - 1) :
                          \A j \in ValueColumns(table) : table[i][j] = Score(k)
                /\ (\A m \in Range(call[o].metrics) : Len(self[o].data[m]) = num_frames)
                      => Len(table) - 1 = num_frames

\* the console text of the engine run of object o has been scanned for vif,
\* on an object that held no vif series before
VifScanned(o) ==
    /\ pc[o] \in {"cleanup", "idle"}
    /\ call[o].n = 1 /\ call[o].metrics = <<"vif">> /\ call[o].exc = NoErr
    /\ call[o].output.kind = "str"

\* the lines of a console text that begin with the prefix of the metadata stage
MetadataLines(lines) == SelectSeq(lines, LAMBDA line : line.prefix = "[Parsed_metadata")

\* the positions of the frame:<n> tokens among them
Boundaries(P) == {i \in 1..Len(P) : P[i].tag = "frame"}

\* the j-th of them
Boundary(P, j) ==
    CHOOSE b \in Boundaries(P) : Cardinality({x \in Boundaries(P) : x <= b}) = j

\* the positions of the lavfi.vif tokens between the j-th boundary and the
\* next one (or the end of the text)
TokensOf(P, j) ==
    LET b == Boundary(P, j)
        later == {x \in Boundaries(P) : x > b}
        e == IF later = {} THEN Len(P) + 1 ELSE CHOOSE x \in later : \A y \in later : x <= y
    IN  {i \in (b + 1)..(e - 1) : P[i].tag = "lavfi.vif"}

\* scale_<i> for the key lavfi.vif.scale.<i>
ScaleKey(key) ==
    "scale_" \o ToString(CHOOSE i \in 0..3 : key = "lavfi.vif.scale." \o ToString(i))

\* C27: the series scanned from a console text has exactly one record per
\* frame:<n> token of the lines that begin with the metadata prefix, in
\* order, the last one included; the record has n as the token gives it, and
\* beside n exactly the keys scale_<i> of the lavfi.vif.scale.<i> tokens
\* that follow the boundary up to the next one, each with the value of its
\* token.  Lines with another prefix and tokens before the first boundary
\* leave no trace.
C27_VifScan ==
    \A o \in AllObjects :
        VifScanned(o) =>
            LET P == MetadataLines(call[o].output.lines)
                series == self[o].data["vif"]
            IN  /\ Len(series) = Cardinality(Boundaries(P))
                /\ \A j \in 1..Len(series) :
                      LET tokens == TokensOf(P, j)
                      IN  /\ series[j].n = P[Boundary(P, j)].n
                          /\ DOMAIN series[j] = {"n"} \cup {ScaleKey(P[i].key) : i \in tokens}
                          /\ \A i \in tokens : series[j][ScaleKey(P[i].key)] = P[i].v

\* C27 witness: a text was scanned that holds a line with another prefix, a
\* scale token before the first frame boundary and two boundaries, the first
\* followed by a scale token and the last by none: two records, the last one
\* of frame 5.
C27_Witness ==
    /\ VifScanned(1)
    /\ LET lines == call[1].output.lines
       IN  /\ Len(lines) = 5
           /\ lines[1].prefix = "[Parsed_vif"
           /\ lines[2].prefix = "[Parsed_metadata" /\ lines[2].tag = "lavfi.vif"
    /\ self[1].data["vif"] = <<[n |-> 0, scale_1 |-> 560], [n |-> 5]>>

\* object o, which held no vmaf series before, has read the libvmaf log of
\* its engine run, and the log is still there
VmafHarvested(o) ==
    /\ pc[o] \in {"read_ffmpeg_output", "cleanup"}
    /\ call[o].n = 1 /\ "vmaf" \in Range(call[o].metrics) /\ call[o].exc = NoErr
    /\ ~self[o].dry_run
    /\ self[o].temp_files["libvmaf"] \in DOMAIN fs

\* C28: the vmaf series harvested from a libvmaf log has one record per
\* entry of the log, in the order of the log; the record's n is the entry's
\* frameNum plus one and its other keys are exactly the keys of the entry's
\* metrics object, each with the value it has there.
C28_VmafRecords ==
    \A o \in AllObjects :
        VmafHarvested(o) =>
            LET frames == fs[self[o].temp_files["libvmaf"]].entries
                series == self[o].data["vmaf"]
            IN  /\ Len(series) = Len(frames)
                /\ \A i \in 1..Len(series) :
                      /\ series[i].n = frames[i].frameNum + 1
                      /\ DOMAIN series[i] \ {"n"} = DOMAIN frames[i].metrics
                      /\ \A key \in DOMAIN frames[i].metrics :
                            series[i][key] = frames[i].metrics[key]

\* C28 witness: a log of three entries taken every second frame, each with
\* the score and two features, has been harvested: the third record is that
\* of frameNum 4.
C28_Witness ==
    /\ VmafHarvested(1)
    /\ Len(self[1].data["vmaf"]) = 3
    /\ self[1].data["vmaf"][3].n = 5
    /\ DOMAIN self[1].data["vmaf"][3] = {"n", "vmaf", "integer_motion", "integer_adm2"}
    /\ self[1].data["vmaf"][3].integer_adm2 = 903

\* C29: reading an ssim stats file that holds, beside the lines the engine
\* wrote, a line that is empty or of white space only raises nothing and
\* gives one record per written line, in order: the blank line leaves no
\* record, n is the integer the engine wrote and every other token is a
\* number under its key.
C29_BlankLinesSkipped ==
    \A o \in AllObjects :
        SsimRead(o) =>
            LET written == fs[self[o].temp_files["ssim"]].entries
                series == self[o].data["ssim"]
            IN  /\ result[o].exc = NoErr
                /\ Len(series) = Len(written)
                /\ \A i \in 1..Len(series) :
                      /\ series[i].n = written[i].n
                      /\ \A key \in DOMAIN series[i] \ {"n"} : series[i][key] \in 0..1000

\* _get_libvmaf_filter_opts has returned the options text for object o
FeatureOptsBuilt(o) == result[o].op = "_get_libvmaf_filter_opts"

\* a text with a backslash put before each of its colons
RECURSIVE Escaped(_)
Escaped(text) ==
    IF text = <<>> THEN <<>>
    ELSE (IF Head(text) = ":" THEN <<"\\", ":">> ELSE <<Head(text)>>) \o Escaped(Tail(text))

\* a feature as the options are to name it
Named(feature) ==
    IF Len(feature) >= 5 /\ SubSeq(feature, 1, 5) = <<"n", "a", "m", "e", "=">>
    THEN feature ELSE <<"n", "a", "m", "e", "=">> \o feature

\* C30: the options text of the libvmaf stage holds a feature parameter
\* exactly when the feature list is not empty; its value is the features of
\* the list, once each and in order, separated by |, a feature that does not
\* begin with name= having name= put in front and one that does being left
\* as it is, with every colon of a feature escaped.
C30_FeatureParameter ==
    \A o \in AllObjects :
        FeatureOptsBuilt(o) =>
            LET text == result[o].ret
                features == DEFAULT_VMAF_OPTIONS.features
                at == find(text, <<":", "f", "e", "a", "t", "u", "r", "e", "=">>)
                expected == [i \in 1..Len(features) |-> Escaped(Named(features[i]))]
            IN  /\ (at # 0) <=> (features # <<>>)
                /\ at # 0 =>
                      /\ SubSeq(text, at + 9, Len(text)) = join(expected, <<"|">>)
                      /\ Cardinality({i \in DOMAIN text : text[i] = "|"}) = Len(features) - 1
====
